---------------------------- MODULE Spec2Model ----------------------------
(***************************************************************************)
(* Content and image resolution of rss_to_wp:                              *)
(*   feeds/parser.py          scrape_article_content, get_entry_content,   *)
(*                            get_entry_link                               *)
(*   images/rss_extractor.py  is_image_domain_blocked, is_same_domain,     *)
(*                            is_valid_image_url, scrape_image_from_url,   *)
(*                            find_rss_image, extract_first_image_from_html*)
(*   images/downloader.py     download_image, find_fallback_image          *)
(*                                                                         *)
(* Python strings are TLA+ strings; Len, \o and SubSeq act on them         *)
(* character by character, so substring tests, splits and replacements are *)
(* computed as the library computes them.  A mapping (a feed entry, an    *)
(* element's attributes) is a record holding the keys that are present; an *)
(* Optional[str] is NONE or Some(s).                                       *)
(***************************************************************************)
EXTENDS Integers, Sequences, FiniteSets, TLC

(***************************************************************************)
(* str                                                                     *)
(***************************************************************************)
NONE == [none |-> TRUE]

SetMin(S) == CHOOSE m \in S : \A k \in S : m <= k

Char(s, i) == SubSeq(s, i, i)

\* s[i:] with a 0-based Python index i
From(s, i) == SubSeq(s, i + 1, Len(s))

\* s[:i] with a 0-based Python index i
Upto(s, i) == SubSeq(s, 1, i)

StartsWith(s, p) == Len(p) <= Len(s) /\ SubSeq(s, 1, Len(p)) = p

EndsWith(s, p) == Len(p) <= Len(s) /\ SubSeq(s, Len(s) - Len(p) + 1, Len(s)) = p

\* sub in s
Contains(s, sub) ==
    \E i \in 1..(Len(s) - Len(sub) + 1) : SubSeq(s, i, i + Len(sub) - 1) = sub

RECURSIVE FindFrom(_, _, _)
\* s.find(sub, start): 0-based index of the first occurrence at or after
\* start, -1 when there is none
FindFrom(s, sub, start) ==
    IF start + Len(sub) > Len(s) THEN -1
    ELSE IF SubSeq(s, start + 1, start + Len(sub)) = sub THEN start
    ELSE FindFrom(s, sub, start + 1)

Find(s, sub) == FindFrom(s, sub, 0)

RECURSIVE RFindFrom(_, _, _)
RFindFrom(s, sub, start) ==
    IF start < 0 THEN -1
    ELSE IF SubSeq(s, start + 1, start + Len(sub)) = sub THEN start
    ELSE RFindFrom(s, sub, start - 1)

\* s.rfind(sub)
RFind(s, sub) == RFindFrom(s, sub, Len(s) - Len(sub))

UpperCase == "ABCDEFGHIJKLMNOPQRSTUVWXYZ"

LowerCase == "abcdefghijklmnopqrstuvwxyz"

Digits == "0123456789"

\* the lowercase letter of each uppercase letter
LowerOf ==
    [c \in {Char(UpperCase, i) : i \in 1..Len(UpperCase)} |->
        Char(LowerCase, Find(UpperCase, c) + 1)]

LowerChar(c) == IF c \in DOMAIN LowerOf THEN LowerOf[c] ELSE c

RECURSIVE Lower(_)
\* s.lower()
Lower(s) == IF s = "" THEN "" ELSE LowerChar(Char(s, 1)) \o Lower(From(s, 1))

IsSpace(c) == c = " "

IsAlpha(c) == Contains(UpperCase, c) \/ Contains(LowerCase, c)

RECURSIVE LStrip(_)
LStrip(s) == IF s # "" /\ IsSpace(Char(s, 1)) THEN LStrip(From(s, 1)) ELSE s

RECURSIVE RStrip(_)
RStrip(s) ==
    IF s # "" /\ IsSpace(Char(s, Len(s))) THEN RStrip(Upto(s, Len(s) - 1)) ELSE s

\* s.strip()
Strip(s) == RStrip(LStrip(s))

RECURSIVE RStripChar(_, _)
\* s.rstrip(c) for a single character c
RStripChar(s, c) ==
    IF s # "" /\ Char(s, Len(s)) = c THEN RStripChar(Upto(s, Len(s) - 1), c) ELSE s

\* Each of the following comes in two parts: the second takes the index
\* the first has found.
RECURSIVE Split(_, _)
SplitAt(s, sep, i) ==
    IF i < 0 THEN <<s>> ELSE <<Upto(s, i)>> \o Split(From(s, i + Len(sep)), sep)

\* s.split(sep): the list of the parts between the occurrences of sep
Split(s, sep) == SplitAt(s, sep, Find(s, sep))

RECURSIVE SplitWs(_)
SplitWsAt(t, i) ==
    IF t = "" THEN <<>>
    ELSE IF i < 0 THEN <<t>>
    ELSE <<Upto(t, i)>> \o SplitWs(From(t, i))

SplitWsStripped(t) == SplitWsAt(t, Find(t, " "))

\* s.split(): the whitespace-separated words, none of them empty
SplitWs(s) == SplitWsStripped(LStrip(s))

RECURSIVE Replace(_, _, _)
ReplaceAt(s, old, new, i) ==
    IF i < 0 THEN s
    ELSE Upto(s, i) \o new \o Replace(From(s, i + Len(old)), old, new)

\* s.replace(old, new): every non-overlapping occurrence, left to right
Replace(s, old, new) == ReplaceAt(s, old, new, Find(s, old))

RECURSIVE Join(_, _)
\* sep.join(parts)
Join(parts, sep) ==
    IF parts = <<>> THEN ""
    ELSE IF Len(parts) = 1 THEN parts[1]
    ELSE parts[1] \o sep \o Join(Tail(parts), sep)

\* an Optional[str]: NONE, or the string wrapped
Some(s) == [val |-> s]

\* the truth value Python gives an Optional[str] used as a condition: None
\* and the empty string are false
Truthy(v) == v # NONE /\ v.val # ""

\* the same for an Optional text kept as runs
TruthyText(v) == v # NONE /\ v.val # <<>>

Get(d, k, default) == IF k \in DOMAIN d THEN d[k] ELSE default

Last(seq) == seq[Len(seq)]

(***************************************************************************)
(* urllib.parse.  URLs here hold no ";" (path parameters), no "[" or "]"   *)
(* (IPv6 hosts, the one input on which urlparse raises) and no control     *)
(* characters.                                                             *)
(***************************************************************************)
SchemeChars == UpperCase \o LowerCase \o Digits \o "+-."

UsesRelative ==
    {"", "ftp", "http", "gopher", "nntp", "imap", "wais", "file", "https",
     "shttp", "mms", "prospero", "rtsp", "rtspu", "sftp", "svn", "svn+ssh",
     "ws", "wss"}

UsesNetloc ==
    {"", "ftp", "http", "gopher", "nntp", "telnet", "imap", "wais", "file",
     "mms", "https", "shttp", "snews", "prospero", "rtsp", "rtspu", "rsync",
     "svn", "svn+ssh", "sftp", "nfs", "git", "git+ssh", "ws", "wss"}

\* the parts of urlparse, each taking what the part before it left
SplitQuery(scheme, netloc, rest, fragment, q) ==
    [scheme |-> scheme, netloc |-> netloc, fragment |-> fragment,
     path  |-> IF q < 0 THEN rest ELSE Upto(rest, q),
     query |-> IF q < 0 THEN "" ELSE From(rest, q + 1)]

SplitFragment(scheme, netloc, rest, f) ==
    IF f < 0 THEN SplitQuery(scheme, netloc, rest, "", Find(rest, "?"))
    ELSE SplitQuery(scheme, netloc, Upto(rest, f), From(rest, f + 1),
                    Find(Upto(rest, f), "?"))

SplitPath(scheme, netloc, rest) ==
    SplitFragment(scheme, netloc, rest, Find(rest, "#"))

NetlocEnd(rest, ends) == IF ends = {} THEN Len(rest) ELSE SetMin(ends)

SplitNetlocAt(scheme, rest, delim) ==
    SplitPath(scheme, SubSeq(rest, 3, delim), From(rest, delim))

SplitNetloc(scheme, rest) ==
    IF StartsWith(rest, "//")
    THEN SplitNetlocAt(scheme, rest,
             NetlocEnd(rest, {FindFrom(rest, "/", 2), FindFrom(rest, "?", 2),
                              FindFrom(rest, "#", 2)} \ {-1}))
    ELSE SplitPath(scheme, "", rest)

SplitScheme(url, default_scheme, i) ==
    IF /\ i > 0
       /\ IsAlpha(Char(url, 1))
       /\ \A k \in 1..i : Contains(SchemeChars, Char(url, k))
    THEN SplitNetloc(Lower(Upto(url, i)), From(url, i + 1))
    ELSE SplitNetloc(default_scheme, url)

\* urlparse(url, default_scheme): the scheme up to the first ":", the
\* netloc between "//" and the first of "/", "?", "#", then the fragment
\* after "#", the query after "?" and the path
urlparse_default(url, default_scheme) ==
    SplitScheme(url, default_scheme, Find(url, ":"))

urlparse(url) == urlparse_default(url, "")

UnparseQuery(p, url) ==
    (IF p.query # "" THEN url \o "?" \o p.query ELSE url)
    \o (IF p.fragment # "" THEN "#" \o p.fragment ELSE "")

UnparseScheme(p, url) ==
    UnparseQuery(p, IF p.scheme # "" THEN p.scheme \o ":" \o url ELSE url)

UnparseNetloc(p, path) ==
    UnparseScheme(p, IF p.netloc # "" \/ (p.scheme \in UsesNetloc /\ p.scheme # ""
                                          /\ ~StartsWith(path, "//"))
                     THEN "//" \o p.netloc \o path ELSE path)

\* urlunparse(parts)
urlunparse(p) ==
    UnparseNetloc(p, IF p.netloc # "" /\ p.path # "" /\ ~StartsWith(p.path, "/")
                     THEN "/" \o p.path ELSE p.path)

RECURSIVE RemoveDots(_, _)
\* the loop of urljoin over the path segments: ".." drops the segment
\* before it, "." is skipped
RemoveDots(segments, resolved) ==
    IF segments = <<>> THEN resolved
    ELSE LET seg == Head(segments)
         IN  IF seg = ".."
             THEN RemoveDots(Tail(segments),
                             IF resolved = <<>> THEN resolved
                             ELSE SubSeq(resolved, 1, Len(resolved) - 1))
             ELSE IF seg = "." THEN RemoveDots(Tail(segments), resolved)
             ELSE RemoveDots(Tail(segments), Append(resolved, seg))

\* segments[1:-1] = filter(None, segments[1:-1])
FilterInner(segments) ==
    IF Len(segments) < 2 THEN segments
    ELSE <<segments[1]>>
         \o SelectSeq(SubSeq(segments, 2, Len(segments) - 1), LAMBDA g : g # "")
         \o <<Last(segments)>>

\* base_parts of urljoin: the segments of the base path without the last
BaseParts(parts) ==
    IF Last(parts) # "" THEN SubSeq(parts, 1, Len(parts) - 1) ELSE parts

JoinResolved(u, netloc, segments, resolved) ==
    urlunparse([u EXCEPT
        !.netloc = netloc,
        !.path = IF Join(IF Last(segments) \in {".", ".."}
                         THEN Append(resolved, "") ELSE resolved, "/") = ""
                 THEN "/"
                 ELSE Join(IF Last(segments) \in {".", ".."}
                           THEN Append(resolved, "") ELSE resolved, "/")])

JoinSegments(u, netloc, segments) ==
    JoinResolved(u, netloc, segments, RemoveDots(segments, <<>>))

JoinPath(b, u, netloc) ==
    IF u.path = ""
    THEN urlunparse([u EXCEPT !.netloc = netloc, !.path = b.path,
                              !.query = IF u.query = "" THEN b.query
                                        ELSE u.query])
    ELSE JoinSegments(u, netloc,
             IF StartsWith(u.path, "/") THEN Split(u.path, "/")
             ELSE FilterInner(BaseParts(Split(b.path, "/")) \o Split(u.path, "/")))

JoinParsed(b, u, url) ==
    IF u.scheme # b.scheme \/ u.scheme \notin UsesRelative THEN url
    ELSE IF u.scheme \in UsesNetloc /\ u.netloc # "" THEN urlunparse(u)
    ELSE JoinPath(b, u, IF u.scheme \in UsesNetloc THEN b.netloc ELSE u.netloc)

JoinBase(b, url) == JoinParsed(b, urlparse_default(url, b.scheme), url)

\* urljoin(base, url)
urljoin(base, url) ==
    IF base = "" THEN url
    ELSE IF url = "" THEN base
    ELSE JoinBase(urlparse(base), url)

(***************************************************************************)
(* images/rss_extractor.py: the URL and domain classifier                  *)
(***************************************************************************)
IMAGE_EXTENSIONS == {".jpg", ".jpeg", ".png", ".gif", ".webp", ".bmp"}

IMAGE_MIME_TYPES ==
    {"image/jpeg", "image/png", "image/gif", "image/webp", "image/bmp"}

BLOCKED_IMAGE_DOMAINS ==
    {"doubleclick.net", "googlesyndication.com", "googleadservices.com",
     "adnxs.com", "adsrvr.org", "amazon-adsystem.com", "advertising.com",
     "pubmatic.com", "rubiconproject.com", "criteo.com", "taboola.com",
     "outbrain.com",
     "facebook.com", "facebook.net", "twitter.com", "analytics", "pixel",
     "beacon", "tracking",
     "adult", "xxx", "porn", "nsfw",
     "ads.", "ad.", "banner", "sponsor",
     "shutterstock", "istockphoto", "gettyimages"}

ContainsBlocked(url_lower) ==
    \E blocked \in BLOCKED_IMAGE_DOMAINS : Contains(url_lower, blocked)

is_image_domain_blocked(url) ==
    IF url = "" THEN TRUE ELSE ContainsBlocked(Lower(url))

trusted_cdn_patterns ==
    <<<<"careyathletics.com", "sidearm">>,
      <<"careyathletics.com", "sidearmsports">>,
      <<"careyathletics.com", "prestosports">>>>

\* a comparison that trusts a parent of the source host as well as a child
SameDomainEitherWay(source_domain, image_domain) ==
    \/ source_domain = image_domain
    \/ EndsWith(image_domain, "." \o source_domain)
    \/ EndsWith(source_domain, "." \o image_domain)
    \/ \E i \in DOMAIN trusted_cdn_patterns :
           /\ Contains(source_domain, trusted_cdn_patterns[i][1])
           /\ Contains(image_domain, trusted_cdn_patterns[i][2])

\* the comparison of is_same_domain, the "www." taken out of both hosts
SameDomain(source_domain, image_domain) ==
    \/ source_domain = image_domain
    \/ EndsWith(image_domain, "." \o source_domain)
    \/ \E i \in DOMAIN trusted_cdn_patterns :
           /\ Contains(source_domain, trusted_cdn_patterns[i][1])
           /\ Contains(image_domain, trusted_cdn_patterns[i][2])

is_same_domain(source_url, image_url) ==
    IF source_url = "" \/ image_url = "" THEN FALSE
    ELSE SameDomain(Replace(Lower(urlparse(source_url).netloc), "www.", ""),
                    Replace(Lower(urlparse(image_url).netloc), "www.", ""))

known_image_hosts ==
    {"pexels.com", "unsplash.com", "cloudinary.com", "imgix.net", "wp.com",
     "wordpress.com", "flickr.com", "staticflickr.com", "sidearm",
     "prestosports", "bmcusports.com", "careyathletics.com",
     "nwccrangers.com", "coahomasports.com", "gostatesmen.com",
     "mvsusports.com", "alcornsports.com", "gojsutigers.com",
     "southernmiss.com", "hailstate.com", "olemisssports.com",
     "gochoctaws.com", "blazers.belhaven.edu", "gomajors.com",
     "owlsathletics.com", "sports.hindscc.edu", "jcbobcats.com",
     "southwestbearathletics.com"}

\* the three tests of is_valid_image_url: the extension in the last
\* segment of the path, the format hint in the query, the known host
ValidImageParts(filename, query_lower, netloc_lower) ==
    \/ \E ext \in IMAGE_EXTENSIONS : Contains(filename, ext)
    \/ Contains(query_lower, "format=jpg")
    \/ Contains(query_lower, "format=jpeg")
    \/ Contains(query_lower, "format=png")
    \/ Contains(query_lower, "type=jpg")
    \/ Contains(query_lower, "type=jpeg")
    \/ Contains(query_lower, "type=png")
    \/ /\ Contains(query_lower, "image_path=")
       /\ \/ Contains(query_lower, ".jpg")
          \/ Contains(query_lower, ".jpeg")
          \/ Contains(query_lower, ".png")
    \/ \E host \in known_image_hosts : Contains(netloc_lower, host)

ValidImageParsed(parsed) ==
    IF parsed.scheme = "" \/ parsed.netloc = "" THEN FALSE
    ELSE ValidImageParts(Last(Split(RStripChar(Lower(parsed.path), "/"), "/")),
                         Lower(parsed.query), Lower(parsed.netloc))

is_valid_image_url(url) ==
    IF url = "" THEN FALSE ELSE ValidImageParsed(urlparse(url))

(***************************************************************************)
(* Text.  A feed content, a summary or the text of a page is hundreds of   *)
(* characters long, so it is kept as the sequence of its runs: a run of n  *)
(* non-blank characters free of "<" and ">", a run of n whitespace         *)
(* characters, or one tag "<...>" of n characters with its name and        *)
(* attributes.  Lengths, tag stripping and whitespace collapsing are       *)
(* computed over the runs.                                                 *)
(***************************************************************************)
T(n) == [k |-> "text", n |-> n]

W(n) == [k |-> "ws", n |-> n]

Tag(name, attrs, n) == [k |-> "tag", n |-> n, name |-> name, attrs |-> attrs]

RECURSIVE StrLen(_)
\* len(s)
StrLen(segs) == IF segs = <<>> THEN 0 ELSE Head(segs).n + StrLen(Tail(segs))

\* re.sub(r'<[^>]+>', '', s)
StripTags(segs) == SelectSeq(segs, LAMBDA g : g.k # "tag")

RECURSIVE CollapseWs(_)
\* re.sub(r'\s+', ' ', s): each maximal whitespace run becomes one space
CollapseWs(segs) ==
    IF segs = <<>> THEN <<>>
    ELSE IF Head(segs).k # "ws" THEN <<Head(segs)>> \o CollapseWs(Tail(segs))
    ELSE IF Len(segs) > 1 /\ segs[2].k = "ws" THEN CollapseWs(Tail(segs))
    ELSE <<W(1)>> \o CollapseWs(Tail(segs))

RECURSIVE LStripSegs(_)
LStripSegs(segs) ==
    IF segs # <<>> /\ Head(segs).k = "ws" THEN LStripSegs(Tail(segs)) ELSE segs

RECURSIVE RStripSegs(_)
RStripSegs(segs) ==
    IF segs # <<>> /\ Last(segs).k = "ws"
    THEN RStripSegs(SubSeq(segs, 1, Len(segs) - 1)) ELSE segs

\* s.strip()
StripSegs(segs) == RStripSegs(LStripSegs(segs))

(***************************************************************************)
(* Exceptions: the classes each raised exception is an instance of.        *)
(***************************************************************************)
RequestExceptions == {"ConnectionError", "Timeout", "HTTPError"}

OtherExceptions ==
    {"ParserRejectedMarkup", "ValueError", "IndexError",
     "UnidentifiedImageError", "ProviderError"}

IsInstance(exc, cls) ==
    \/ exc = cls
    \/ cls = "RequestException" /\ exc \in RequestExceptions
    \/ cls = "Exception" /\ exc \in RequestExceptions \cup OtherExceptions

\* the outcome of a block of code: it returns val, or raises exc
Returns(v) == [val |-> v, exc |-> ""]

Raises(e) == [val |-> NONE, exc |-> e]

\* a try block whose only except clause is the one for RequestException
TryExceptRequestOnly(body, classes) ==
    IF body.exc # "" /\ IsInstance(body.exc, "RequestException")
    THEN Returns(NONE) ELSE body

\* try: body / except cls_1 ... cls_n: return None
TryExceptReturnNone(body, classes) ==
    IF body.exc # "" /\ \E cls \in classes : IsInstance(body.exc, cls)
    THEN Returns(NONE) ELSE body

(***************************************************************************)
(* requests.get: it raises, or it answers with a status and a payload.     *)
(* BeautifulSoup(response.content, "html.parser") over a page gives its    *)
(* document, or raises on markup the parser rejects.                       *)
(***************************************************************************)
\* response.raise_for_status()
raise_for_status(response) ==
    IF response.status >= 400 THEN Raises("HTTPError") ELSE Returns(NONE)

(***************************************************************************)
(* images/rss_extractor.py: scrape_image_from_url.  A parsed page is the   *)
(* sequence of its <source> elements and the sequence of its <img>         *)
(* elements, in document order, each with its attributes and the selectors *)
(* of the function that match it, and the attributes of its first          *)
(* og:image and twitter:image <meta> elements when it has them.            *)
(***************************************************************************)
picture_selectors ==
    <<"article picture source", ".article-content picture source",
      ".story-content picture source", ".hero-image picture source",
      ".featured-image picture source", "picture source">>

hero_selectors ==
    <<"article img", ".article-content img", ".story-content img",
      ".hero-image img", ".featured-image img", ".article-image img",
      ".story-image img", ".post-thumbnail img", ".wp-post-image",
      "figure img">>

\* soup.select(selector) over the elements of one kind
select(elements, selector) ==
    SelectSeq(elements, LAMBDA e : selector \in e.matches)

RECURSIVE SelectAll(_, _, _)
\* the elements the nested loops over the selectors from selector i on and
\* over soup.select(selector) visit, in the order they visit them
SelectAll(elements, selectors, i) ==
    IF i > Len(selectors) THEN <<>>
    ELSE select(elements, selectors[i]) \o SelectAll(elements, selectors, i + 1)

\* words[0], which raises on an empty list
FirstOf(words) ==
    IF words = <<>> THEN Raises("IndexError") ELSE Returns(words[1])

\* srcset.split(",")[0].strip().split()[0]
FirstSrc(srcset) == FirstOf(SplitWs(Strip(Split(srcset, ",")[1])))

\* src made absolute against the page's URL unless it starts with http://
\* or https://
Resolve(url, src) ==
    IF StartsWith(src, "http://") \/ StartsWith(src, "https://") THEN src
    ELSE urljoin(url, src)

\* AcceptsMeta without the blocklist check
AcceptsMetaUnblocked(image_url) == is_valid_image_url(image_url)

\* the acceptance check of the picture, og:image and twitter:image stages
AcceptsMeta(image_url) ==
    is_valid_image_url(image_url) /\ ~is_image_domain_blocked(image_url)

\* AcceptsHero without the same-domain check
AcceptsHeroAnyDomain(url, src) ==
    is_valid_image_url(src) /\ ~is_image_domain_blocked(src)

\* the acceptance check of the hero <img> stage
AcceptsHero(url, src) ==
    /\ is_valid_image_url(src)
    /\ is_same_domain(url, src)
    /\ ~is_image_domain_blocked(src)

RECURSIVE PictureLoop(_, _)
\* the body of the loop of stage 1 once first_src is resolved
PictureAccept(first_src, sources, url) ==
    IF AcceptsMeta(first_src) THEN Returns(Some(first_src))
    ELSE PictureLoop(Tail(sources), url)

\* the body of the loop of stage 1 for a srcset that is there: first is
\* its first URL, or the IndexError
PictureFirst(first, sources, url) ==
    IF first.exc # "" THEN first
    ELSE PictureAccept(Resolve(url, first.val), sources, url)

\* stage 1 over the <source> elements still to visit
PictureLoop(sources, url) ==
    IF sources = <<>> THEN Returns(NONE)
    ELSE IF Get(Head(sources).attrs, "srcset", "") = ""
    THEN PictureLoop(Tail(sources), url)
    ELSE PictureFirst(FirstSrc(Head(sources).attrs.srcset), sources, url)

\* stage 1: the <picture><source srcset> elements
PictureStage(doc, url) ==
    PictureLoop(SelectAll(doc.sources, picture_selectors, 1), url)

\* stages 2 and 3: the content of the <meta> element of the given key
MetaStage(doc, key) ==
    IF key \in DOMAIN doc /\ Get(doc[key], "content", "") # ""
       /\ AcceptsMeta(doc[key].content)
    THEN Returns(Some(doc[key].content)) ELSE Returns(NONE)

\* soup.select_one(selector) over the <img> elements: a one-element or
\* empty sequence
select_one(elements, selector) ==
    IF select(elements, selector) = <<>> THEN <<>>
    ELSE <<Head(select(elements, selector))>>

\* img.get("src") or img.get("data-src")
ImgSrc(attrs) ==
    IF Get(attrs, "src", "") # "" THEN attrs.src ELSE Get(attrs, "data-src", "")

RECURSIVE HeroLoop(_, _, _)
\* the body of the loop of stage 4 once src is resolved
HeroAccept(src, doc, url, i) ==
    IF AcceptsHero(url, src) THEN Returns(Some(src))
    ELSE HeroLoop(doc, url, i + 1)

\* the body of the loop of stage 4 for the element select_one gave
HeroImg(img, doc, url, i) ==
    IF img # <<>> /\ ImgSrc(img[1].attrs) # ""
    THEN HeroAccept(Resolve(url, ImgSrc(img[1].attrs)), doc, url, i)
    ELSE HeroLoop(doc, url, i + 1)

\* stage 4 from selector i on
HeroLoop(doc, url, i) ==
    IF i > Len(hero_selectors) THEN Returns(NONE)
    ELSE HeroImg(select_one(doc.imgs, hero_selectors[i]), doc, url, i)

\* stage 4: the hero <img> elements
HeroStage(doc, url) == HeroLoop(doc, url, 1)

\* the stages of scrape_image_from_url, in the order of the code
ScrapeStages == <<"picture", "og", "twitter", "hero">>

\* what a stage comes to
StageResult(stage, doc, url) ==
    CASE stage = "picture" -> PictureStage(doc, url)
      [] stage = "og"      -> MetaStage(doc, "og_image")
      [] stage = "twitter" -> MetaStage(doc, "twitter_image")
      [] stage = "hero"    -> HeroStage(doc, url)

\* requests.get, raise_for_status and the parse, at the head of the try
\* block of scrape_image_from_url: the document, or what is raised
FetchPage(outcome) ==
    IF outcome.exc # "" THEN Raises(outcome.exc)
    ELSE IF raise_for_status(outcome).exc # "" THEN raise_for_status(outcome)
    ELSE IF outcome.malformed THEN Raises("ParserRejectedMarkup")
    ELSE Returns(outcome.doc)

\* the except clauses of scrape_image_from_url around a part of its try
\* block
ScrapeImageExcept(body) ==
    TryExceptReturnNone(body, {"RequestException", "Exception"})

(***************************************************************************)
(* feeds/parser.py                                                         *)
(***************************************************************************)
content_selectors ==
    <<"article .article-body", ".article-content", ".story-body",
      ".article__body", "[itemprop='articleBody']", ".node-content",
      ".post-content", ".entry-content", "article", ".content-body", "main",
      "#content">>

RECURSIVE get_text(_)
JoinText(first, rest) ==
    IF first = <<>> THEN rest
    ELSE IF rest = <<>> THEN first
    ELSE first \o <<W(1)>> \o rest

\* element.get_text(separator=" ", strip=True) over the element's strings:
\* each string stripped, the empty ones dropped, the rest joined by " "
get_text(strings) ==
    IF strings = <<>> THEN <<>>
    ELSE JoinText(StripSegs(Head(strings)), get_text(Tail(strings)))

ContentFloor == 200

\* SelectArticle without the floor: the text of the first selected element
SelectArticleAny(doc, i) ==
    IF \E j \in i..Len(content_selectors) : content_selectors[j] \in DOMAIN doc.select
    THEN get_text(doc.select[content_selectors[
             SetMin({j \in i..Len(content_selectors) :
                        content_selectors[j] \in DOMAIN doc.select})]])
    ELSE <<>>

RECURSIVE SelectArticle(_, _)
\* the loop over content_selectors from selector i on: the text of the
\* first selected element longer than the floor, <<>> when there is none
SelectArticle(doc, i) ==
    IF i > Len(content_selectors) THEN <<>>
    ELSE LET selector == content_selectors[i]
         IN  IF selector \in DOMAIN doc.select
                /\ StrLen(get_text(doc.select[selector])) > ContentFloor
             THEN get_text(doc.select[selector])
             ELSE SelectArticle(doc, i + 1)

\* the try block of scrape_article_content
ScrapeArticleBody(outcome) ==
    IF outcome.exc # "" THEN Raises(outcome.exc)
    ELSE IF raise_for_status(outcome).exc # "" THEN raise_for_status(outcome)
    ELSE IF outcome.malformed THEN Raises("ParserRejectedMarkup")
    ELSE
    LET doc      == outcome.doc
        selected == SelectArticle(doc, 1)
        article  == IF selected # <<>> THEN selected
                    ELSE IF "body" \in DOMAIN doc
                            /\ StrLen(get_text(doc.body)) > ContentFloor
                    THEN get_text(doc.body)
                    ELSE <<>>
    IN  IF article # <<>> THEN Returns(Some(StripSegs(CollapseWs(article))))
        ELSE Returns(NONE)

\* scrape_article_content(url), the request ending in outcome
scrape_article_content(url, outcome) ==
    IF ~Truthy(url) THEN Returns(NONE)
    ELSE TryExceptReturnNone(ScrapeArticleBody(outcome),
                             {"RequestException", "Exception"})

MinLength == 500

\* rss_content of get_entry_content: content[0].value, else summary, else
\* description
RssContent(entry) ==
    LET c1 == IF "content" \in DOMAIN entry /\ entry.content # <<>>
              THEN Get(entry.content[1], "value", <<>>) ELSE <<>>
        c2 == IF c1 = <<>> /\ "summary" \in DOMAIN entry
              THEN entry.summary ELSE c1
    IN  IF c2 = <<>> THEN Get(entry, "description", <<>>) ELSE c2

\* clean_content of get_entry_content
CleanContent(rss_content) == StripSegs(CollapseWs(StripTags(rss_content)))

RECURSIVE FirstHtmlLink(_)
\* the loop of get_entry_content over entry["links"]: the href of the first
\* link with rel "alternate" or type "text/html"; NONE when no link is one,
\* and when that link has no href
FirstHtmlLink(links) ==
    IF links = <<>> THEN NONE
    ELSE IF Get(Head(links), "rel", "") = "alternate"
            \/ Get(Head(links), "type", "") = "text/html"
    THEN IF "href" \in DOMAIN Head(links) THEN Some(Head(links).href) ELSE NONE
    ELSE FirstHtmlLink(Tail(links))

\* source_url of get_entry_content
SourceUrl(entry) ==
    LET direct == Some(Get(entry, "link", ""))
    IN  IF ~Truthy(direct) /\ "links" \in DOMAIN entry /\ entry.links # <<>>
        THEN IF Truthy(FirstHtmlLink(entry.links))
             THEN FirstHtmlLink(entry.links)
             ELSE Some(Get(entry.links[1], "href", ""))
        ELSE direct

\* the loop of get_entry_link meets a link with rel "alternate" or type
\* "text/html", at which it returns
HasHtmlLink(links) ==
    \E i \in DOMAIN links :
        Get(links[i], "rel", "") = "alternate" \/ Get(links[i], "type", "") = "text/html"

\* get_entry_link(entry): NONE stands for None, which link.get("href")
\* gives for a link without href
get_entry_link(entry) ==
    IF "link" \in DOMAIN entry /\ entry.link # "" THEN Some(entry.link)
    ELSE IF "links" \in DOMAIN entry /\ entry.links # <<>>
    THEN IF HasHtmlLink(entry.links) THEN FirstHtmlLink(entry.links)
         ELSE IF "href" \in DOMAIN entry.links[1] THEN Some(entry.links[1].href)
         ELSE NONE
    ELSE NONE

\* WantsScrape measuring the feed content with its tags and whitespace
WantsScrapeRawLength(entry, scrape_if_short) ==
    /\ scrape_if_short
    /\ StrLen(RssContent(entry)) < MinLength
    /\ Truthy(SourceUrl(entry))

\* whether get_entry_content goes on to scrape the source
WantsScrape(entry, scrape_if_short) ==
    /\ scrape_if_short
    /\ StrLen(CleanContent(RssContent(entry))) < MinLength
    /\ Truthy(SourceUrl(entry))

\* ChooseContent taking a scraped text that is no longer than the feed's
ChooseContentNotShorter(rss_content, scraped) ==
    IF TruthyText(scraped)
       /\ StrLen(scraped.val) >= StrLen(CleanContent(rss_content))
    THEN scraped.val ELSE rss_content

\* the value get_entry_content returns once scrape_article_content gave
\* scraped
ChooseContent(rss_content, scraped) ==
    IF TruthyText(scraped)
       /\ StrLen(scraped.val) > StrLen(CleanContent(rss_content))
    THEN scraped.val ELSE rss_content

(***************************************************************************)
(* The inputs: the feed entries a caller passes and the answers the        *)
(* network gives.                                                          *)
(***************************************************************************)
\* the longest feed text, in runs
MaxSegs == 2

\* the runs a feed text is made of: texts just under the threshold and of
\* one character, a whitespace run and a tag
SegChoices == {T(MinLength - 1), T(1), W(2), Tag("p", [class |-> "x"], 3)}

RECURSIVE SeqsUpTo(_, _)
\* the sequences over S of length at most n
SeqsUpTo(S, n) ==
    IF n = 0 THEN {<<>>}
    ELSE LET shorter == SeqsUpTo(S, n - 1)
         IN  shorter \cup {Append(q, e) : q \in shorter, e \in S}

FeedTexts == SeqsUpTo(SegChoices, MaxSegs)

RECURSIVE DistinctSeqsUpTo(_, _)
\* the sequences of distinct elements of S of length at most n
DistinctSeqsUpTo(S, n) ==
    IF n = 0 THEN {<<>>}
    ELSE LET shorter == DistinctSeqsUpTo(S, n - 1)
         IN  shorter \cup UNION {{Append(q, e) : e \in S \ {q[i] : i \in DOMAIN q}} :
                                  q \in shorter}

ArticleUrl == "https://www.example.com/news/story"

OtherUrl == "https://www.example.com/feed/item"

\* a mapping without keys
Empty == [k \in {} |-> NONE]

ContentFields ==
    {Empty, [content |-> <<>>], [content |-> <<[type |-> "text/html"]>>]}
    \cup {[content |-> <<[value |-> c]>>] : c \in FeedTexts}

SummaryFields == {Empty, [summary |-> <<>>], [summary |-> <<T(MinLength)>>]}

DescriptionFields == {Empty, [description |-> <<T(1)>>]}

LinkFields ==
    {Empty,
     [link |-> ArticleUrl],
     [link |-> "", links |-> <<[rel |-> "alternate", href |-> ArticleUrl]>>],
     [links |-> <<[rel |-> "enclosure", href |-> OtherUrl],
                  [type |-> "text/html", href |-> ArticleUrl]>>],
     [links |-> <<[rel |-> "alternate"]>>],
     [links |-> <<[rel |-> "enclosure", href |-> OtherUrl], [rel |-> "alternate"]>>],
     [links |-> <<[href |-> OtherUrl], [type |-> "text/html", href |-> ""]>>],
     [links |-> <<[rel |-> "enclosure"]>>],
     [links |-> <<>>]}

\* the entries get_entry_content is called with
ContentEntries ==
    {c @@ m @@ d @@ l : c \in ContentFields, m \in SummaryFields,
                        d \in DescriptionFields, l \in LinkFields}

\* the strings of the elements of a scraped page
LongText == <<<<T(MinLength + 100)>>>>

FloorText == <<<<T(ContentFloor)>>>>

SpacedText == <<<<T(ContentFloor - 1), W(ContentFloor), T(1)>>>>

\* a string that is mostly one run of whitespace
SparseText == <<<<T(ContentFloor - 100), W(ContentFloor), T(1)>>>>

EqualText == <<<<W(1), T(MinLength - 3), W(3)>>, <<W(2)>>, <<T(1)>>>>

\* the documents an article page parses to: the elements its selectors
\* select and its body
ArticleDocs ==
    {a @@ b @@ c :
        a \in {Empty, [select |-> (".article-content" :> FloorText)],
               [select |-> (".article-content" :> LongText)],
               [select |-> (".article-content" :> FloorText)
                           @@ ("main" :> EqualText)]},
        b \in {[select |-> Empty]},
        c \in {Empty, [body |-> FloorText], [body |-> SpacedText],
               [body |-> SparseText]}}

HttpFailures ==
    {[exc |-> "ConnectionError"], [exc |-> "Timeout"],
     [exc |-> "", status |-> 404, malformed |-> FALSE]}

\* what requests.get and the parse of the page can come to for an article
ArticleOutcomes ==
    HttpFailures
    \cup {[exc |-> "", status |-> 200, malformed |-> TRUE]}
    \cup {[exc |-> "", status |-> 200, malformed |-> FALSE, doc |-> d] :
            d \in ArticleDocs}

\* the most <source> elements, and the most <img> elements, of a page
MaxSources == 2

MaxImgs == 2

SameSiteImage == "https://www.example.com/images/hero.jpg"

CdnImage == "https://cdn.sportsmedia.org/photos/game.png"

BlockedImage == "https://ads.doubleclick.net/creative/banner.jpg"

NotAnImage == "https://www.example.com/gallery/view"

SourceElements ==
    {[attrs |-> [srcset |-> "/images/2026/team.jpg?width=647 1x, /images/2026/team2.jpg 2x"],
      matches |-> {"article picture source", "picture source"}],
     [attrs |-> [srcset |-> " "], matches |-> {"picture source"}],
     [attrs |-> [srcset |-> NotAnImage \o " 2x"], matches |-> {"picture source"}],
     [attrs |-> [media |-> "(min-width:768px)"], matches |-> {"picture source"}]}

ImgElements ==
    {[attrs |-> [src |-> "photos/hero.webp"],
      matches |-> {"article img", "figure img"}],
     [attrs |-> [src |-> CdnImage], matches |-> {"article img"}],
     [attrs |-> ("src" :> "") @@ ("data-src" :> SameSiteImage),
      matches |-> {".wp-post-image"}]}

OgMetas ==
    {Empty,
     [og_image |-> [property |-> "og:image", content |-> CdnImage]],
     [og_image |-> [property |-> "og:image", content |-> BlockedImage]]}

TwitterMetas ==
    {Empty,
     [twitter_image |-> [name |-> "twitter:image", content |-> SameSiteImage]]}

\* the documents a page scraped for its image parses to
ImageDocs ==
    {[sources |-> s, imgs |-> i] @@ o @@ t :
        s \in DistinctSeqsUpTo(SourceElements, MaxSources),
        i \in DistinctSeqsUpTo(ImgElements, MaxImgs),
        o \in OgMetas, t \in TwitterMetas}

\* what requests.get and the parse of the page can come to for a page
\* scraped for its image
ImageOutcomes ==
    HttpFailures
    \cup {[exc |-> "", status |-> 200, malformed |-> TRUE]}
    \cup {[exc |-> "", status |-> 200, malformed |-> FALSE, doc |-> d] :
            d \in ImageDocs}

(***************************************************************************)
(* images/rss_extractor.py: find_rss_image, extract_first_image_from_html  *)
(***************************************************************************)
RssStages == <<"media_content", "media_thumbnail", "enclosures", "links", "html">>

\* "field" in entry and entry[field]
HasItems(entry, field) == field \in DOMAIN entry /\ entry[field] # <<>>

\* the URL a loop ends with: that of the first item it accepts, at which it
\* breaks, NONE when it accepts none
FirstUrl(urls) == IF urls = <<>> THEN NONE ELSE Some(urls[1])

MediaUrl(media) == Get(media, "url", "")

\* media_content accepting an item declared an image whatever its URL
MediaAcceptsDeclared(media) ==
    IF Get(media, "type", "") \in IMAGE_MIME_TYPES \/ Get(media, "medium", "") = "image"
    THEN TRUE
    ELSE is_valid_image_url(MediaUrl(media))

\* stage 1: the item is declared an image and its URL is valid, or it is
\* not declared one and its URL is valid
MediaAccepts(media) ==
    IF Get(media, "type", "") \in IMAGE_MIME_TYPES \/ Get(media, "medium", "") = "image"
    THEN is_valid_image_url(MediaUrl(media))
    ELSE is_valid_image_url(MediaUrl(media))

\* stage 2
ThumbAccepts(thumb) == is_valid_image_url(MediaUrl(thumb))

\* enclosure.get("href", "") or enclosure.get("url", "")
EnclosureUrl(enclosure) ==
    IF Get(enclosure, "href", "") # "" THEN enclosure.href
    ELSE Get(enclosure, "url", "")

\* stage 3
EnclosureAccepts(enclosure) ==
    /\ \/ Get(enclosure, "type", "") \in IMAGE_MIME_TYPES
       \/ is_valid_image_url(EnclosureUrl(enclosure))
    /\ EnclosureUrl(enclosure) # ""

LinkUrl(link) == Get(link, "href", "")

\* stage 4
LinkAccepts(link) ==
    /\ Get(link, "type", "") \in IMAGE_MIME_TYPES
    /\ LinkUrl(link) # ""

skip_patterns ==
    {"pixel", "spacer", "blank", "1x1", "tracking", "beacon", "analytics",
     "gravatar", "avatar"}

\* soup.find_all(name) over the tags of a text
find_all(html, name) ==
    SelectSeq(html, LAMBDA g : g.k = "tag" /\ g.name = name)

\* the src of an <img> resolved against base_url
HtmlImgUrl(src, base_url) ==
    IF base_url # "" /\ ~(StartsWith(src, "http://") \/ StartsWith(src, "https://"))
    THEN urljoin(base_url, src)
    ELSE src

\* the <img> is not passed over: it has a src, no skip pattern occurs in
\* it, and the resolved src is a valid image URL
HtmlImgAccepts(src, base_url) ==
    /\ src # ""
    /\ ~\E pattern \in skip_patterns : Contains(Lower(src), pattern)
    /\ is_valid_image_url(HtmlImgUrl(src, base_url))

\* the resolved srcs of the <img> elements that are not passed over
HtmlImgUrls(imgs, base_url) ==
    [i \in DOMAIN imgs |-> HtmlImgUrl(Get(imgs[i].attrs, "src", ""), base_url)]

extract_first_image_from_html(html, base_url) ==
    FirstUrl(HtmlImgUrls(
        SelectSeq(find_all(html, "img"),
                  LAMBDA img : HtmlImgAccepts(Get(img.attrs, "src", ""), base_url)),
        base_url))

\* html_content of stage 5
HtmlContent(entry) ==
    IF HasItems(entry, "content") THEN Get(entry.content[1], "value", <<>>)
    ELSE IF "summary" \in DOMAIN entry THEN entry.summary
    ELSE IF "description" \in DOMAIN entry THEN entry.description
    ELSE <<>>

\* the guard of stages 2 to 5 with its test of image_url left out
StageGuardAlways(image_url) == TRUE

\* "not image_url", the guard of stages 2 to 5; it holds at stage 1
StageGuard(image_url) == ~Truthy(image_url)

\* the stage's block is entered
RssStageRuns(stage, image_url, entry) ==
    /\ stage # "media_content" => StageGuard(image_url)
    /\ stage # "html" => HasItems(entry, stage)

MediaUrls(items) == [i \in DOMAIN items |-> MediaUrl(items[i])]

EnclosureUrls(items) == [i \in DOMAIN items |-> EnclosureUrl(items[i])]

LinkUrls(items) == [i \in DOMAIN items |-> LinkUrl(items[i])]

\* the URL the loop of one of stages 1 to 4 accepts
RssStageScan(stage, entry) ==
    CASE stage = "media_content" ->
           FirstUrl(MediaUrls(SelectSeq(entry.media_content, MediaAccepts)))
      [] stage = "media_thumbnail" ->
           FirstUrl(MediaUrls(SelectSeq(entry.media_thumbnail, ThumbAccepts)))
      [] stage = "enclosures" ->
           FirstUrl(EnclosureUrls(SelectSeq(entry.enclosures, EnclosureAccepts)))
      [] stage = "links" ->
           FirstUrl(LinkUrls(SelectSeq(entry.links, LinkAccepts)))

\* a loop assigns image_url only when it accepts an item
KeepOr(found, image_url) == IF found # NONE THEN found ELSE image_url

\* image_url after a stage
RssStage(stage, image_url, entry, base_url) ==
    IF ~RssStageRuns(stage, image_url, entry) THEN image_url
    ELSE IF stage = "html"
    THEN IF HtmlContent(entry) # <<>>
         THEN extract_first_image_from_html(HtmlContent(entry), base_url)
         ELSE image_url
    ELSE KeepOr(RssStageScan(stage, entry), image_url)

\* the items of the list fields of an entry
MaxItems == 2

MediaImage == "https://media.example.com/photos/team.jpg"

ThumbImage == "https://media.example.com/thumbs/team.png"

EnclosureImage == "https://www.example.com/media/photo.jpg"

InlineImage == "https://img.example.net/p/1.gif"

MediaItems ==
    {[url |-> MediaImage, type |-> "image/jpeg"],
     [url |-> NotAnImage, medium |-> "image"],
     [url |-> CdnImage]}

ThumbItems == {[url |-> ThumbImage], [width |-> "120"]}

EnclosureItems ==
    {[href |-> "https://www.example.com/media/clip", type |-> "image/png"],
     [url |-> EnclosureImage, length |-> "1000"],
     [type |-> "image/gif"]}

LinkItems ==
    {[rel |-> "enclosure", type |-> "image/jpeg",
      href |-> "https://www.example.com/download?id=7"],
     [rel |-> "alternate", type |-> "text/html", href |-> ArticleUrl]}

ImgTags ==
    {Tag("img", [src |-> "https://www.example.com/pixel.png"], 1),
     Tag("img", [src |-> "images/inline.gif"], 1),
     Tag("img", [src |-> InlineImage], 1)}

HtmlTexts == DistinctSeqsUpTo(ImgTags, MaxItems)

\* the fields find_rss_image reads, each with the values it is given
ImageFields ==
    {{[media_content |-> q] : q \in DistinctSeqsUpTo(MediaItems, MaxItems)},
     {[media_thumbnail |-> q] : q \in DistinctSeqsUpTo(ThumbItems, MaxItems)},
     {[enclosures |-> q] : q \in DistinctSeqsUpTo(EnclosureItems, MaxItems)},
     {[links |-> q] : q \in DistinctSeqsUpTo(LinkItems, MaxItems)},
     {[content |-> <<[value |-> h]>>] : h \in HtmlTexts},
     {[summary |-> h] : h \in HtmlTexts}}

\* the entries find_rss_image is given: none, one or two of the fields
ImageEntries ==
    UNION {{a @@ b : a \in A, b \in B} : A \in ImageFields, B \in ImageFields}
    \cup {Empty, [description |-> <<Tag("img", [src |-> InlineImage], 1)>>]}

BaseUrls == {"", ArticleUrl}

(***************************************************************************)
(* images/downloader.py: download_image.  The bytes of a payload are its   *)
(* size and whether PIL decodes them.                                      *)
(***************************************************************************)
IsDigits(s) == s # "" /\ \A i \in 1..Len(s) : Contains(Digits, Char(s, i))

RECURSIVE DecimalValue(_)
DecimalValue(s) ==
    IF s = "" THEN 0
    ELSE DecimalValue(Upto(s, Len(s) - 1)) * 10 + Find(Digits, Char(s, Len(s)))

\* int(t) of a stripped string: an optional sign and decimal digits
IntStripped(t) ==
    IF IsDigits(t) THEN Returns(DecimalValue(t))
    ELSE IF StartsWith(t, "-") /\ IsDigits(From(t, 1))
    THEN Returns(0 - DecimalValue(From(t, 1)))
    ELSE IF StartsWith(t, "+") /\ IsDigits(From(t, 1))
    THEN Returns(DecimalValue(From(t, 1)))
    ELSE Raises("ValueError")

\* int(s)
int(s) == IntStripped(Strip(s))

\* response.headers.get(name)
Header(headers, name) ==
    IF name \in DOMAIN headers THEN Some(headers[name]) ELSE NONE

\* the Content-Length check with a header of any value counted as declaring
\* nothing
TooLargeNever(content_length, max_size_mb) == Returns(FALSE)

\* content_length and int(content_length) > max_size_mb * 1024 * 1024
TooLarge(content_length, max_size_mb) ==
    IF ~Truthy(content_length) THEN Returns(FALSE)
    ELSE IF int(content_length.val).exc # "" THEN int(content_length.val)
    ELSE Returns(int(content_length.val).val > max_size_mb * 1024 * 1024)

\* requests.get(url, stream=True), raise_for_status and the Content-Length
\* check: the request raises, or the check tells whether the declared size
\* is over the ceiling
DownloadRequest(response, max_size_mb) ==
    IF response.exc # "" THEN Raises(response.exc)
    ELSE IF raise_for_status(response).exc # "" THEN raise_for_status(response)
    ELSE TooLarge(Header(response.headers, "Content-Length"), max_size_mb)

\* response.content of a streamed response: the body, or the failure of
\* the connection it is read from
ReadContent(response) ==
    IF "exc" \in DOMAIN response.body THEN Raises(response.body.exc)
    ELSE Returns(response.body)

\* Image.open(BytesIO(content)) and img.verify() inside their own try:
\* any exception returns None
VerifyImage(content) ==
    TryExceptReturnNone(IF content.decodes THEN Returns(content)
                        ELSE Raises("UnidentifiedImageError"),
                        {"Exception"})

valid_exts == {".jpg", ".jpeg", ".png", ".gif", ".webp", ".bmp"}

\* s.split(sep)[-1], which is also s.rsplit(sep, 1)[-1]
LastPart(s, sep) ==
    IF RFind(s, sep) < 0 THEN s ELSE From(s, RFind(s, sep) + Len(sep))

\* "." in name and the lowercased extension is a valid one
HasValidExt(name) ==
    Contains(name, ".") /\ ("." \o Lower(LastPart(name, "."))) \in valid_exts

\* path.split("/")[-1].split("?")[0]
PathFilename(path) == Split(LastPart(path, "/"), "?")[1]

\* the value of a query part, cut to what follows its last "/"
QueryValue(part) == LastPart(From(part, Find(part, "=") + 1), "/")

RECURSIVE QueryFilename(_, _)
\* the loop over the parts of the query from part i on
QueryFilename(parts, i) ==
    IF i > Len(parts) THEN NONE
    ELSE IF Contains(parts[i], "=") /\ HasValidExt(QueryValue(parts[i]))
    THEN Some(QueryValue(parts[i]))
    ELSE QueryFilename(parts, i + 1)

ext_map ==
    ("image/jpeg" :> ".jpg") @@ ("image/png" :> ".png") @@ ("image/gif" :> ".gif")
    @@ ("image/webp" :> ".webp") @@ ("image/bmp" :> ".bmp")

\* hashlib.md5(url.encode()).hexdigest()[:10]: ten hexadecimal digits that
\* are a function of the URL, written here as the URL they stand for
UrlHash(url) == "md5:" \o url

GeneratedFilename(url, content_type) ==
    "featured-image-" \o UrlHash(url)
        \o Get(ext_map, Lower(Strip(Split(content_type, ";")[1])), ".jpg")

ExtractFilenameParsed(parsed, url, content_type) ==
    IF parsed.path # "" /\ PathFilename(parsed.path) # ""
       /\ HasValidExt(PathFilename(parsed.path))
    THEN PathFilename(parsed.path)
    ELSE IF parsed.query # "" /\ QueryFilename(Split(parsed.query, "&"), 1) # NONE
    THEN QueryFilename(Split(parsed.query, "&"), 1).val
    ELSE GeneratedFilename(url, content_type)

\* _extract_filename
extract_filename(url, content_type) ==
    ExtractFilenameParsed(urlparse(url), url, content_type)

\* the tuple download_image returns
DownloadResult(url, content, content_type) ==
    <<content, extract_filename(url, content_type), content_type>>

\* the except clauses of download_image around a part of its try block
DownloadExcept(body) ==
    TryExceptReturnNone(body, {"RequestException", "Exception"})

DefaultMaxSizeMb == 5

\* the ceilings download_image is called with, in whole megabytes
MaxSizes == {1, DefaultMaxSizeMb}

QueryImage == "https://cdn.example.com/render?image_path=/photos/a.PNG&w=64"

DownloadUrls == {SameSiteImage, QueryImage, NotAnImage}

ContentLengths ==
    {Empty} \cup {("Content-Length" :> v) :
                    v \in {"", "abc", "1000", "5242880", "5242881", "10485760"}}

ContentTypes == {Empty, ("Content-Type" :> "image/PNG; charset=binary")}

\* the payloads: small, at the default ceiling, one byte over it, and over
\* it by a megabyte
Payloads ==
    {[size |-> n, decodes |-> d] :
        n \in {1000, 5242880, 5242881, 6291456}, d \in BOOLEAN}

\* what requests.get can come to for an image: it raises, it answers with
\* an error status, or it answers with headers and a body whose read
\* succeeds or fails
DownloadResponses ==
    {[exc |-> "ConnectionError"], [exc |-> "Timeout"], [exc |-> "", status |-> 404]}
    \cup {[exc |-> "", status |-> 200, headers |-> l @@ t, body |-> b] :
            l \in ContentLengths, t \in ContentTypes,
            b \in Payloads \cup {[exc |-> "ConnectionError"]}}

(***************************************************************************)
(* images/downloader.py: extract_keywords, find_fallback_image             *)
(***************************************************************************)
stop_words ==
    {"the", "a", "an", "and", "or", "but", "in", "on", "at", "to", "for",
     "of", "with", "by", "from", "as", "is", "was", "are", "were", "been",
     "be", "have", "has", "had", "do", "does", "did", "will", "would",
     "could", "should", "may", "might", "must", "shall", "can", "need",
     "this", "that", "these", "those", "it", "its", "their", "our", "your",
     "new", "announces", "released", "says", "reports", "today", "week"}

\* the character matches \w or \s
IsWordOrSpace(c) == IsAlpha(c) \/ Contains(Digits, c) \/ c = "_" \/ IsSpace(c)

RECURSIVE SubNonWord(_)
\* re.sub(r"[^\w\s]", " ", s)
SubNonWord(s) ==
    IF s = "" THEN ""
    ELSE (IF IsWordOrSpace(Char(s, 1)) THEN Char(s, 1) ELSE " ")
            \o SubNonWord(From(s, 1))

RECURSIVE UniqueLoop(_, _, _, _)
\* one turn of the loop over keywords: the word is appended unless seen,
\* and the loop breaks once max_words are held
UniqueNext(keywords, i, unique_keywords, max_words) ==
    IF Len(unique_keywords) >= max_words THEN unique_keywords
    ELSE UniqueLoop(keywords, i + 1, unique_keywords, max_words)

UniqueLoop(keywords, i, unique_keywords, max_words) ==
    IF i > Len(keywords) THEN unique_keywords
    ELSE IF \E j \in DOMAIN unique_keywords : unique_keywords[j] = keywords[i]
    THEN UniqueNext(keywords, i, unique_keywords, max_words)
    ELSE UniqueNext(keywords, i, Append(unique_keywords, keywords[i]), max_words)

MaxWords == 5

extract_keywords(text, max_words) ==
    Join(UniqueLoop(SelectSeq(SplitWs(SubNonWord(Lower(text))),
                              LAMBDA w : w \notin stop_words /\ Len(w) > 2),
                    1, <<>>, max_words),
         " ")

sport_queries ==
    <<[sport |-> "basketball", keywords |-> {"basketball", "mbball", "wbball", "hoops"}],
      [sport |-> "baseball", keywords |-> {"baseball"}],
      [sport |-> "softball", keywords |-> {"softball"}],
      [sport |-> "football", keywords |-> {"football"}],
      [sport |-> "soccer", keywords |-> {"soccer", "msoc", "wsoc"}],
      [sport |-> "volleyball", keywords |-> {"volleyball", "vball"}],
      [sport |-> "tennis", keywords |-> {"tennis", "mten", "wten"}],
      [sport |-> "golf", keywords |-> {"golf", "mgolf", "wgolf"}],
      [sport |-> "track", keywords |-> {"track", "mtrack", "wtrack", "cross country",
                                        "mcross", "wcross"}],
      [sport |-> "swimming", keywords |-> {"swimming", "swim"}]>>

\* the sport groups one of whose keywords occurs in the text
MatchingSports(combined_text) ==
    {i \in DOMAIN sport_queries :
        \E keyword \in sport_queries[i].keywords : Contains(combined_text, keyword)}

\* DetectedSport taking the last matching group
DetectedSportLast(matching) ==
    IF matching = {} THEN NONE
    ELSE Some(sport_queries[CHOOSE i \in matching : \A j \in matching : j <= i].sport)

\* detected_sport: the first matching group in the order of the mapping
DetectedSport(matching) ==
    IF matching = {} THEN NONE ELSE Some(sport_queries[SetMin(matching)].sport)

\* query = extract_keywords(...), replaced when empty
KeywordQuery(keywords) ==
    IF keywords = "" THEN "college sports athletics" ELSE keywords

QueryFor(detected_sport, title, feed_name) ==
    IF detected_sport # NONE THEN "college " \o detected_sport.val \o " sport"
    ELSE KeywordQuery(extract_keywords(title \o " " \o feed_name, MaxWords))

\* the search query of find_fallback_image
FallbackQuery(title, feed_name) ==
    QueryFor(DetectedSport(MatchingSports(Lower(title \o " " \o feed_name))),
             title, feed_name)

Providers == <<"pexels", "unsplash">>

\* "if pexels_key:" with the test of the key left out
ConfiguredAlways(key) == TRUE

\* a provider is tried when its key is configured
Configured(key) == Truthy(key)

\* the provider's result ends the call
EndsSearch(outcome) == outcome.exc = "" /\ outcome.val # NONE

\* the try block around a provider: an exception is logged and swallowed
TryProvider(outcome) ==
    IF outcome.exc # "" /\ IsInstance(outcome.exc, "Exception")
    THEN Returns(NONE) ELSE outcome

Titles ==
    {"", "Lady Tigers MBBall Wins Championship",
     "Softball and Baseball teams split", "The Team wins: a big, big game today!",
     "Tigers edge Lions in overtime thriller at home, Tigers celebrate",
     "It is on!"}

FeedNames == {"", "Tippah Sports"}

ApiKeys == {NONE, Some(""), Some("key")}

\* what a provider's search comes to: a photo, nothing, or an exception
ProviderOutcomes(provider, query) ==
    {Returns(Some([source |-> provider, url |-> "https://photos.example/1.jpg",
                   alt_text |-> query])),
     Returns(NONE), Raises("ProviderError"), Raises("ConnectionError")}

\* the URLs is_same_domain is called with: a child and a parent host, hosts
\* with "www." in front, inside and in capitals, the trusted partner pair,
\* a URL with no host, the empty string and no value
ChildUrl == "https://x.example.com/a"

ParentImage == "https://example.com/img.jpg"

ChildImage == "https://x.example.com/img.jpg"

ParentUrl == "https://example.com/a"

InnerWwwUrl == "https://cdn.www.example.com/a"

InnerWwwImage == "https://cdn.example.com/img.jpg"

HostlessUrl == "/news/story"

HostlessImage == "/img/photo.jpg"

DomainUrls ==
    {NONE, Some(""), Some(HostlessUrl), Some(ArticleUrl), Some(ChildUrl),
     Some(ParentUrl), Some(InnerWwwUrl), Some("https://WWW.Example.com/a"),
     Some("https://careyathletics.com/news/1"), Some("https://other.org/a")}

DomainImages ==
    {NONE, Some(""), Some(HostlessImage), Some(SameSiteImage), Some(ParentImage),
     Some(ChildImage), Some(InnerWwwImage), Some("https://www.x.example.com/b.png"),
     Some(CdnImage), Some("https://awww.example.com/c.jpg"),
     Some("https://notexample.com/d.jpg"),
     Some("https://images.sidearmdev.com/e.jpg")}

(***************************************************************************)
(* The state: the call in progress, its position, arguments and locals,    *)
(* what it returned or raised, and what it did to the outside world.       *)
(***************************************************************************)
VARIABLES call, pc, arg, loc, ret, events

vars == <<call, pc, arg, loc, ret, events>>

Init ==
    /\ call = "idle"
    /\ pc = "idle"
    /\ arg = NONE
    /\ loc = NONE
    /\ ret = NONE
    /\ events = <<>>

\* get_entry_content(entry, scrape_if_short) up to the call of the scraper
GetEntryContent(entry, scrape_if_short) ==
    /\ call = "idle"
    /\ call' = "get_entry_content"
    /\ arg' = [entry |-> entry, scrape_if_short |-> scrape_if_short]
    /\ loc' = [rss_content |-> RssContent(entry),
               source_url |-> SourceUrl(entry)]
    /\ events' = <<>>
    /\ IF WantsScrape(entry, scrape_if_short)
       THEN pc' = "scrape" /\ ret' = NONE
       ELSE pc' = "done" /\ ret' = Returns(RssContent(entry))

\* the call scrape_article_content(source_url) and the rest of
\* get_entry_content
GetEntryContentScrape(outcome) ==
    /\ call = "get_entry_content" /\ pc = "scrape"
    /\ \E scraped \in {scrape_article_content(loc.source_url, outcome)} :
           /\ loc' = loc @@ [scraped |-> scraped]
           /\ ret' = IF scraped.exc # "" THEN scraped
                     ELSE Returns(ChooseContent(loc.rss_content, scraped.val))
    /\ events' = Append(events, [op |-> "scrape_article_content",
                                 url |-> loc.source_url.val])
    /\ pc' = "done"
    /\ UNCHANGED <<call, arg>>

\* scrape_article_content(url), called on its own
ScrapeArticleContent(url, outcome) ==
    /\ call = "idle"
    /\ call' = "scrape_article_content"
    /\ arg' = [url |-> url]
    /\ loc' = [outcome |-> outcome]
    /\ ret' = scrape_article_content(url, outcome)
    /\ events' = IF Truthy(url) THEN <<[op |-> "GET", url |-> url.val]>> ELSE <<>>
    /\ pc' = "done"

\* scrape_image_from_url(url) up to the request
ScrapeImageFromUrl(url) ==
    /\ call = "idle"
    /\ call' = "scrape_image_from_url"
    /\ arg' = [url |-> url]
    /\ loc' = Empty
    /\ events' = <<>>
    /\ IF ~Truthy(url)
       THEN pc' = "done" /\ ret' = Returns(NONE)
       ELSE pc' = "fetch" /\ ret' = NONE

\* requests.get, raise_for_status and the parse of the page
ScrapeImageFetch(outcome) ==
    /\ call = "scrape_image_from_url" /\ pc = "fetch"
    /\ events' = Append(events, [op |-> "GET", url |-> arg.url.val])
    /\ \E page \in {FetchPage(outcome)} :
           IF page.exc # ""
           THEN /\ loc' = [failure |-> page.exc]
                /\ pc' = "done" /\ ret' = ScrapeImageExcept(page)
           ELSE /\ loc' = [doc |-> page.val]
                /\ pc' = "picture" /\ ret' = NONE
    /\ UNCHANGED <<call, arg>>

\* one stage of scrape_image_from_url: it returns the URL the stage
\* accepts, goes on to the next stage, or ends in the except clause
ScrapeImageStage(stage) ==
    /\ call = "scrape_image_from_url" /\ pc = ScrapeStages[stage]
    /\ events' = Append(events, [op |-> "stage", stage |-> ScrapeStages[stage]])
    /\ \E found \in {StageResult(ScrapeStages[stage], loc.doc, arg.url.val)} :
           IF found.exc # ""
           THEN /\ pc' = "done" /\ ret' = ScrapeImageExcept(found)
                /\ loc' = loc @@ [failure |-> found.exc]
           ELSE IF found.val # NONE
           THEN /\ pc' = "done" /\ ret' = found
                /\ loc' = loc @@ [stage |-> ScrapeStages[stage]]
           ELSE IF stage < Len(ScrapeStages)
           THEN pc' = ScrapeStages[stage + 1] /\ ret' = NONE /\ loc' = loc
           ELSE pc' = "done" /\ ret' = Returns(NONE) /\ loc' = loc
    /\ UNCHANGED <<call, arg>>

\* find_rss_image is called
FindRssImage(entry, base_url) ==
    /\ call = "idle"
    /\ call' = "find_rss_image" /\ pc' = RssStages[1]
    /\ arg' = [entry |-> entry, base_url |-> base_url]
    /\ loc' = [image_url |-> NONE, consulted |-> <<>>]
    /\ ret' = NONE
    /\ UNCHANGED events

\* one stage of find_rss_image, noted with the image_url it leaves when its
\* block is entered; the last is followed by the return
FindRssImageStage(stage) ==
    /\ call = "find_rss_image" /\ pc = RssStages[stage]
    /\ \E image_url \in {RssStage(RssStages[stage], loc.image_url,
                                  arg.entry, arg.base_url)} :
          /\ loc' = [image_url |-> image_url,
                     consulted |->
                        IF RssStageRuns(RssStages[stage], loc.image_url, arg.entry)
                        THEN Append(loc.consulted, [stage |-> RssStages[stage],
                                                    image_url |-> image_url])
                        ELSE loc.consulted]
          /\ IF stage < Len(RssStages)
             THEN pc' = RssStages[stage + 1] /\ ret' = NONE
             ELSE pc' = "done" /\ ret' = Returns(image_url)
    /\ UNCHANGED <<call, arg, events>>

\* download_image is called
DownloadImage(url, max_size_mb) ==
    /\ call = "idle"
    /\ call' = "download_image" /\ pc' = "request"
    /\ arg' = [url |-> url, max_size_mb |-> max_size_mb]
    /\ loc' = Empty /\ ret' = NONE
    /\ UNCHANGED events

\* the streamed request, raise_for_status and the Content-Length check
DownloadImageRequest(response) ==
    /\ call = "download_image" /\ pc = "request"
    /\ events' = Append(events, [op |-> "GET", url |-> arg.url])
    /\ loc' = [response |-> response]
    /\ \E too_large \in {DownloadRequest(response, arg.max_size_mb)} :
          IF too_large.exc # ""
          THEN pc' = "done" /\ ret' = DownloadExcept(too_large)
          ELSE IF too_large.val
          THEN pc' = "done" /\ ret' = Returns(NONE)
          ELSE pc' = "read" /\ ret' = NONE
    /\ UNCHANGED <<call, arg>>

\* content = response.content
DownloadImageRead ==
    /\ call = "download_image" /\ pc = "read"
    /\ events' = Append(events, [op |-> "read", url |-> arg.url])
    /\ \E content \in {ReadContent(loc.response)} :
          IF content.exc # ""
          THEN pc' = "done" /\ ret' = DownloadExcept(content) /\ loc' = loc
          ELSE pc' = "verify" /\ ret' = NONE
               /\ loc' = loc @@ [content |-> content.val]
    /\ UNCHANGED <<call, arg>>

\* the decode of the payload, then the filename and the return
DownloadImageVerify ==
    /\ call = "download_image" /\ pc = "verify"
    /\ events' = Append(events, [op |-> "decode", url |-> arg.url])
    /\ pc' = "done"
    /\ IF VerifyImage(loc.content).val = NONE
       THEN ret' = Returns(NONE)
       ELSE ret' = Returns(Some(DownloadResult(arg.url, loc.content,
                        Get(loc.response.headers, "Content-Type", "image/jpeg"))))
    /\ UNCHANGED <<call, arg, loc>>

\* find_fallback_image is called: without a key it returns at once,
\* otherwise it builds the query
FindFallbackImage(title, feed_name, pexels_key, unsplash_key) ==
    /\ call = "idle"
    /\ call' = "find_fallback_image"
    /\ arg' = [title |-> title, feed_name |-> feed_name,
               pexels |-> pexels_key, unsplash |-> unsplash_key]
    /\ IF ~Truthy(pexels_key) /\ ~Truthy(unsplash_key)
       THEN pc' = "done" /\ ret' = Returns(NONE) /\ loc' = Empty
       ELSE /\ pc' = Providers[1] /\ ret' = NONE
            /\ loc' = [query |-> FallbackQuery(title, feed_name)]
    /\ UNCHANGED events

\* a provider of find_fallback_image with the outcome of its search: it is
\* skipped without its key, otherwise searched; the last is followed by the
\* return of None
SearchProvider(p, outcome) ==
    /\ events' = IF Configured(arg[Providers[p]])
                 THEN Append(events, [op |-> "search", provider |-> Providers[p],
                                      query |-> loc.query, result |-> outcome])
                 ELSE events
    /\ IF Configured(arg[Providers[p]]) /\ EndsSearch(TryProvider(outcome))
       THEN pc' = "done" /\ ret' = outcome
       ELSE IF p < Len(Providers)
       THEN pc' = Providers[p + 1] /\ ret' = NONE
       ELSE pc' = "done" /\ ret' = Returns(NONE)
    /\ UNCHANGED <<call, arg, loc>>

\* one provider of find_fallback_image
FallbackProvider(p) ==
    /\ call = "find_fallback_image" /\ pc = Providers[p]
    /\ \E outcome \in ProviderOutcomes(Providers[p], loc.query) :
          SearchProvider(p, outcome)

\* is_same_domain(source_url, image_url), called on its own
IsSameDomain(source_url, image_url) ==
    /\ call = "idle"
    /\ call' = "is_same_domain"
    /\ arg' = [source_url |-> source_url, image_url |-> image_url]
    /\ loc' = NONE
    /\ events' = <<>>
    /\ pc' = "done"
    /\ ret' = Returns(IF source_url = NONE \/ image_url = NONE THEN FALSE
                      ELSE is_same_domain(source_url.val, image_url.val))

\* get_entry_link(entry)
GetEntryLink(entry) ==
    /\ call = "idle"
    /\ call' = "get_entry_link"
    /\ arg' = [entry |-> entry]
    /\ loc' = Empty
    /\ events' = <<>>
    /\ pc' = "done"
    /\ ret' = Returns(get_entry_link(entry))

\* the caller takes the result
Finish ==
    /\ pc = "done"
    /\ call' = "idle" /\ pc' = "idle"
    /\ arg' = NONE /\ loc' = NONE /\ ret' = NONE /\ events' = <<>>

\* the calls of feeds/parser.py
NextContent ==
    \/ \E entry \in ContentEntries, b \in BOOLEAN : GetEntryContent(entry, b)
    \/ \E outcome \in ArticleOutcomes : GetEntryContentScrape(outcome)
    \/ \E url \in {NONE, Some(""), Some(ArticleUrl)}, outcome \in ArticleOutcomes :
          ScrapeArticleContent(url, outcome)
    \/ \E entry \in ContentEntries : GetEntryLink(entry)
    \/ Finish

\* the calls of scrape_image_from_url
NextPage ==
    \/ \E url \in {NONE, Some(""), Some(ArticleUrl)} : ScrapeImageFromUrl(url)
    \/ \E outcome \in ImageOutcomes : ScrapeImageFetch(outcome)
    \/ \E stage \in DOMAIN ScrapeStages : ScrapeImageStage(stage)
    \/ Finish

\* the calls of find_rss_image
NextEntry ==
    \/ \E entry \in ImageEntries, base_url \in BaseUrls : FindRssImage(entry, base_url)
    \/ \E stage \in DOMAIN RssStages : FindRssImageStage(stage)
    \/ Finish

\* the calls of download_image
NextDownload ==
    \/ \E url \in DownloadUrls, max_size_mb \in MaxSizes : DownloadImage(url, max_size_mb)
    \/ \E response \in DownloadResponses : DownloadImageRequest(response)
    \/ DownloadImageRead
    \/ DownloadImageVerify
    \/ Finish

\* the calls of find_fallback_image
NextFallback ==
    \/ \E title \in Titles, feed_name \in FeedNames, pexels_key, unsplash_key \in ApiKeys :
          FindFallbackImage(title, feed_name, pexels_key, unsplash_key)
    \/ \E p \in DOMAIN Providers : FallbackProvider(p)
    \/ Finish

\* the calls of is_same_domain
NextDomain ==
    \/ \E source_url \in DomainUrls, image_url \in DomainImages :
          IsSameDomain(source_url, image_url)
    \/ Finish

Next ==
    \/ NextContent \/ NextPage \/ NextEntry \/ NextDownload \/ NextFallback
    \/ NextDomain

\* every call, one at a time
Spec == Init /\ [][Next]_vars

SpecContent == Init /\ [][NextContent]_vars

SpecPage == Init /\ [][NextPage]_vars

SpecEntry == Init /\ [][NextEntry]_vars

SpecDownload == Init /\ [][NextDownload]_vars

SpecFallback == Init /\ [][NextFallback]_vars

SpecDomain == Init /\ [][NextDomain]_vars

(***************************************************************************)
(* The claims                                                              *)
(***************************************************************************)
\* the feed content of an entry as the specification words it: the value of
\* the first content, else the summary, else the description
FeedContent(entry) ==
    LET value       == IF "content" \in DOMAIN entry /\ Len(entry.content) > 0
                          /\ "value" \in DOMAIN entry.content[1]
                       THEN entry.content[1].value ELSE <<>>
        summary     == IF "summary" \in DOMAIN entry THEN entry.summary ELSE <<>>
        description == IF "description" \in DOMAIN entry
                       THEN entry.description ELSE <<>>
    IN  IF value # <<>> THEN value
        ELSE IF summary # <<>> THEN summary ELSE description

\* the length of a text once its tags are gone, its whitespace runs are
\* single spaces and its ends are trimmed
StrippedLength(text) == StrLen(StripSegs(CollapseWs(StripTags(text))))

GetEntryContentDone == call = "get_entry_content" /\ pc = "done"

\* the text scrape_article_content gave get_entry_content, <<>> when it was
\* not called, failed or gave none
ScrapedText ==
    IF "scraped" \in DOMAIN loc /\ loc.scraped.exc = ""
       /\ loc.scraped.val # NONE
    THEN loc.scraped.val.val ELSE <<>>

\* C1: get_entry_content returns the raw feed content or the scraped text,
\* the scraped text only when it is strictly longer than the stripped feed
\* content; when the scrape failed, gave nothing or is not strictly longer,
\* the raw feed content is returned, however short.
C1_ContentNeverDowngrades ==
    GetEntryContentDone =>
        LET raw == FeedContent(arg.entry)
        IN  /\ ret.exc = ""
            /\ \/ ret.val = raw
               \/ /\ ScrapedText # <<>>
                  /\ ret.val = ScrapedText
                  /\ StrLen(ScrapedText) > StrippedLength(raw)
            /\ (ScrapedText = <<>> \/ StrLen(ScrapedText) <= StrippedLength(raw))
                   => ret.val = raw

\* C1 happens: a scrape gave a text exactly as long as the stripped feed
\* content, and the feed content was returned
C1_Witness ==
    /\ GetEntryContentDone
    /\ ScrapedText # <<>>
    /\ FeedContent(arg.entry) # <<>>
    /\ StrLen(ScrapedText) = StrippedLength(FeedContent(arg.entry))
    /\ ret.val = FeedContent(arg.entry)

ScraperInvoked ==
    \E i \in DOMAIN events : events[i].op = "scrape_article_content"

\* C2: the 500-character threshold is applied to the stripped length of the
\* feed content: at 500 or more the raw feed content is returned and the
\* scraper is never invoked; under 500 with a source URL the scraper is
\* invoked, and a scrape of 600 characters is what is returned.
C2_ThresholdOnStrippedLength ==
    call = "get_entry_content" =>
        LET raw == FeedContent(arg.entry)
        IN  /\ StrippedLength(raw) >= 500
                => pc = "done" /\ ret = Returns(raw) /\ ~ScraperInvoked
            /\ (StrippedLength(raw) < 500 /\ arg.scrape_if_short
                /\ Truthy(loc.source_url))
                => (pc = "scrape" \/ ScraperInvoked)
            /\ (pc = "done" /\ StrippedLength(raw) < 500
                /\ StrLen(ScrapedText) = 600)
                => ret = Returns(ScrapedText)

\* C2 happens: a feed content of more than 500 characters with its tag, 499
\* without, and a scrape of 600 characters, which is returned
C2_Witness ==
    /\ GetEntryContentDone
    /\ StrLen(FeedContent(arg.entry)) > 500
    /\ StrippedLength(FeedContent(arg.entry)) = 499
    /\ StrLen(ScrapedText) = 600
    /\ ret = Returns(ScrapedText)

\* C2 happens at the threshold too: 500 stripped characters, no scrape
C2_WitnessAtThreshold ==
    /\ GetEntryContentDone
    /\ arg.scrape_if_short /\ Truthy(loc.source_url)
    /\ StrippedLength(FeedContent(arg.entry)) = 500
    /\ ~ScraperInvoked

ScrapeImageDone == call = "scrape_image_from_url" /\ pc = "done"

\* scrape_image_from_url returned a URL
ScrapeImageReturned == ScrapeImageDone /\ ret.exc = "" /\ ret.val # NONE

\* C3: every URL scrape_image_from_url returns is a valid image URL and is
\* not blocked, whatever stage it comes from; one from the hero <img> stage
\* is also on the page's domain.
C3_ReturnedImageIsSafe ==
    ScrapeImageReturned =>
        /\ is_valid_image_url(ret.val.val)
        /\ ~is_image_domain_blocked(ret.val.val)
        /\ loc.stage = "hero" => is_same_domain(arg.url.val, ret.val.val)

\* C3 happens: the hero <img> stage returned a URL
C3_Witness ==
    /\ ScrapeImageReturned
    /\ loc.stage = "hero"
    /\ is_same_domain(arg.url.val, ret.val.val)

\* C3's exemption happens: a meta tag's URL on another domain is returned
C3_WitnessMetaOtherDomain ==
    /\ ScrapeImageReturned
    /\ loc.stage \in {"og", "twitter"}
    /\ ~is_same_domain(arg.url.val, ret.val.val)

\* the first URL of a srcset as the specification words it: the attribute
\* split on commas, then on whitespace; a srcset without a URL has none
SrcsetUrls(attrs) ==
    IF "srcset" \in DOMAIN attrs THEN SplitWs(Split(attrs.srcset, ",")[1])
    ELSE <<>>

RECURSIVE AcceptableSource(_, _)
\* the first acceptable candidate among the <source> elements, NONE when
\* none has one
AcceptableSource(sources, url) ==
    IF sources = <<>> THEN NONE
    ELSE LET urls == SrcsetUrls(Head(sources).attrs)
         IN  IF urls # <<>> /\ AcceptsMeta(Resolve(url, urls[1]))
             THEN Some(Resolve(url, urls[1]))
             ELSE AcceptableSource(Tail(sources), url)

\* the candidate of a stage that passes the stage's checks, NONE when the
\* stage has none
AcceptableCandidate(stage, doc, url) ==
    IF stage = "picture"
    THEN AcceptableSource(SelectAll(doc.sources, picture_selectors, 1), url)
    ELSE StageResult(stage, doc, url).val

RECURSIVE FirstSuccess(_, _, _)
\* the candidate of the earliest stage from stage i on that has one
FirstSuccess(i, doc, url) ==
    IF i > Len(ScrapeStages) THEN NONE
    ELSE IF AcceptableCandidate(ScrapeStages[i], doc, url) # NONE
    THEN AcceptableCandidate(ScrapeStages[i], doc, url)
    ELSE FirstSuccess(i + 1, doc, url)

\* C5: over a fetched page scrape_image_from_url returns the candidate of
\* the earliest stage (picture source, og:image, twitter:image, hero <img>)
\* that has an acceptable one, and none only when no stage has one; so when
\* no picture source yields an acceptable URL, whatever its srcset holds,
\* and the og:image content is valid and unblocked, the og:image is returned.
C5_FirstSuccessPipeline ==
    (ScrapeImageDone /\ "doc" \in DOMAIN loc) =>
        /\ ret = Returns(FirstSuccess(1, loc.doc, arg.url.val))
        /\ (/\ AcceptableCandidate("picture", loc.doc, arg.url.val) = NONE
            /\ "og_image" \in DOMAIN loc.doc
            /\ AcceptsMeta(loc.doc.og_image.content))
               => ret = Returns(Some(loc.doc.og_image.content))

\* where C5 fails: a srcset of blanks ended the call in its except clause,
\* with an acceptable og:image on the page
C5_SrcsetWithoutUrl ==
    /\ ScrapeImageDone /\ "doc" \in DOMAIN loc
    /\ "failure" \in DOMAIN loc /\ loc.failure = "IndexError"
    /\ "og_image" \in DOMAIN loc.doc /\ AcceptsMeta(loc.doc.og_image.content)
    /\ ret = Returns(NONE)

FindRssImageDone == call = "find_rss_image" /\ pc = "done"

\* find_rss_image returned a URL
FindRssImageReturned == FindRssImageDone /\ ret.exc = "" /\ ret.val # NONE

\* the stage the returned URL comes from: the last one entered
ReturnedByStage == Last(loc.consulted).stage

\* C4 as stated: every URL find_rss_image returns, from any of its five
\* stages, is a valid image URL.
C4_ReturnedImageIsValid ==
    FindRssImageReturned => is_valid_image_url(ret.val.val)

\* C4, amended: a URL find_rss_image returns is not empty; one from
\* media_content, media_thumbnail or the embedded HTML is a valid image URL;
\* one from the enclosures is a valid image URL or the URL of an enclosure
\* whose type is an image MIME type; one from the links is the href of a
\* link whose type is an image MIME type.
C4_ReturnedImageByStage ==
    FindRssImageReturned =>
        /\ ret.val.val # ""
        /\ ReturnedByStage \in {"media_content", "media_thumbnail", "html"}
              => is_valid_image_url(ret.val.val)
        /\ ReturnedByStage = "enclosures"
              => \/ is_valid_image_url(ret.val.val)
                 \/ \E i \in DOMAIN arg.entry.enclosures :
                       /\ Get(arg.entry.enclosures[i], "type", "") \in IMAGE_MIME_TYPES
                       /\ ret.val.val \in {Get(arg.entry.enclosures[i], "href", ""),
                                           Get(arg.entry.enclosures[i], "url", "")}
        /\ ReturnedByStage = "links"
              => \E i \in DOMAIN arg.entry.links :
                    /\ Get(arg.entry.links[i], "type", "") \in IMAGE_MIME_TYPES
                    /\ ret.val.val = Get(arg.entry.links[i], "href", "")

\* C4 happens: the URL of an enclosure typed as an image is returned, and it
\* is not a valid image URL
C4_Witness ==
    /\ FindRssImageReturned
    /\ ReturnedByStage = "enclosures"
    /\ ~is_valid_image_url(ret.val.val)

\* the same for an image-typed link
C4_WitnessLink ==
    /\ FindRssImageReturned
    /\ ReturnedByStage = "links"
    /\ ~is_valid_image_url(ret.val.val)

\* the URL a stage of find_rss_image accepts when taken on its own
AcceptedByStage(stage, entry, base_url) ==
    IF stage = "html"
    THEN IF HtmlContent(entry) = <<>> THEN NONE
         ELSE extract_first_image_from_html(HtmlContent(entry), base_url)
    ELSE IF HasItems(entry, stage) THEN RssStageScan(stage, entry)
    ELSE NONE

\* the position of a stage in the chain
StageIndex(stage) == CHOOSE i \in DOMAIN RssStages : RssStages[i] = stage

\* the URL accepted by the earliest stage that accepts one
EarliestAccepted(accepting, entry, base_url) ==
    IF accepting = {} THEN NONE
    ELSE AcceptedByStage(RssStages[SetMin(accepting)], entry, base_url)

\* C6: find_rss_image returns the URL accepted by the earliest of its
\* stages; a stage is entered only when every earlier stage accepted
\* nothing, so only with the URL still unset; and a URL, once accepted, is
\* the one held to the end.
C6_FirstSuccessChain ==
    call = "find_rss_image" =>
        /\ \A i \in DOMAIN loc.consulted :
              i < Len(loc.consulted) => loc.consulted[i].image_url = NONE
        /\ loc.image_url = IF loc.consulted = <<>> THEN NONE
                           ELSE Last(loc.consulted).image_url
        /\ pc = "done" =>
              /\ ret = Returns(EarliestAccepted(
                           {j \in DOMAIN RssStages :
                               AcceptedByStage(RssStages[j], arg.entry, arg.base_url)
                                  # NONE},
                           arg.entry, arg.base_url))
              /\ \A i \in DOMAIN loc.consulted :
                    \A j \in 1 .. StageIndex(loc.consulted[i].stage) - 1 :
                       AcceptedByStage(RssStages[j], arg.entry, arg.base_url) = NONE

\* C6 happens: two stages accept different URLs and the earlier one's is
\* returned without the later one being entered
C6_Witness ==
    /\ FindRssImageReturned
    /\ \E i, j \in DOMAIN RssStages :
          /\ i > 1 /\ i < j
          /\ ret.val = AcceptedByStage(RssStages[i], arg.entry, arg.base_url)
          /\ AcceptedByStage(RssStages[j], arg.entry, arg.base_url)
                \notin {NONE, ret.val}
          /\ RssStages[i] = ReturnedByStage

DownloadImageDone == call = "download_image" /\ pc = "done"

\* the size ceiling of the call in bytes
CeilingBytes == arg.max_size_mb * 1024 * 1024

\* C7: whatever the response's Content-Length header says, or without
\* one, the bytes download_image returns are no larger than
\* max_size_mb * 1024 * 1024 and decode as an image.
C7_ReturnedWithinCeiling ==
    (DownloadImageDone /\ ret.exc = "" /\ ret.val # NONE) =>
        /\ ret.val.val[1].size <= CeilingBytes
        /\ ret.val.val[1].decodes

\* where C7 fails: a payload over the ceiling is returned, the response
\* having no Content-Length header or one declaring a smaller size
C7_OversizedReturned ==
    /\ DownloadImageDone /\ ret.exc = "" /\ ret.val # NONE
    /\ ret.val.val[1].size > CeilingBytes
    /\ Get(loc.response.headers, "Content-Length", "") \in {"", "1000"}

\* the response of the call has a Content-Length header declaring more
\* bytes than the ceiling
DeclaresOverCeiling ==
    /\ call = "download_image" /\ "response" \in DOMAIN loc
    /\ loc.response.exc = "" /\ loc.response.status = 200
    /\ "Content-Length" \in DOMAIN loc.response.headers
    /\ IsDigits(loc.response.headers["Content-Length"])
    /\ DecimalValue(loc.response.headers["Content-Length"]) > CeilingBytes

\* C8: when the Content-Length header declares a size over the ceiling,
\* download_image returns none, and neither the read of the body nor the
\* decode of an image takes place.
C8_DeclaredTooLargeNotRead ==
    DeclaresOverCeiling =>
        /\ pc = "done" /\ ret = Returns(NONE)
        /\ \A i \in DOMAIN events : events[i].op \notin {"read", "decode"}

\* C8 happens: 10MB declared against the 5MB default
C8_Witness ==
    /\ DeclaresOverCeiling /\ pc = "done"
    /\ loc.response.headers["Content-Length"] = "10485760"
    /\ arg.max_size_mb = DefaultMaxSizeMb

FindFallbackDone == call = "find_fallback_image" /\ pc = "done"

\* the searches of a provider made so far
SearchesOf(provider) ==
    {i \in DOMAIN events : events[i].op = "search" /\ events[i].provider = provider}

\* a search came back with a photo
FoundPhoto(search) == search.result.exc = "" /\ search.result.val # NONE

\* C10: find_fallback_image queries Pexels, then Unsplash, each at most
\* once, with the same query.  Pexels is queried when its key is
\* configured; Unsplash when its key is configured and Pexels was not
\* configured, found nothing or raised.  The first photo found is returned
\* and nothing is queried after it.  Without any key nothing is queried and
\* the result is none; when every configured provider finds nothing or
\* raises, the result is none.
C10_ProvidersInOrder ==
    call = "find_fallback_image" =>
        /\ Cardinality(SearchesOf("pexels")) <= 1
        /\ Cardinality(SearchesOf("unsplash")) <= 1
        /\ \A i \in SearchesOf("pexels"), j \in SearchesOf("unsplash") : i < j
        /\ \A i, j \in DOMAIN events : events[i].query = events[j].query
        /\ SearchesOf("pexels") # {} => Truthy(arg.pexels)
        /\ (pc # Providers[1] /\ Truthy(arg.pexels)) => SearchesOf("pexels") # {}
        /\ SearchesOf("unsplash") # {}
              => /\ Truthy(arg.unsplash)
                 /\ \A i \in SearchesOf("pexels") : ~FoundPhoto(events[i])
        /\ (/\ pc = "done" /\ Truthy(arg.unsplash)
            /\ \A i \in SearchesOf("pexels") : ~FoundPhoto(events[i]))
              => SearchesOf("unsplash") # {}
        /\ \A i \in DOMAIN events :
              FoundPhoto(events[i])
                 => i = Len(events) /\ pc = "done" /\ ret = events[i].result
        /\ (pc = "done" /\ \A i \in DOMAIN events : ~FoundPhoto(events[i]))
              => ret = Returns(NONE)
        /\ (~Truthy(arg.pexels) /\ ~Truthy(arg.unsplash))
              => events = <<>> /\ pc = "done" /\ ret = Returns(NONE)

\* C10 happens: Pexels raised, Unsplash was queried next with the same
\* query, and its photo is returned
C10_Witness ==
    /\ FindFallbackDone
    /\ Len(events) = 2
    /\ events[1].provider = "pexels" /\ events[1].result.exc # ""
    /\ events[2].provider = "unsplash" /\ FoundPhoto(events[2])
    /\ ret = events[2].result

\* the request for a page failed: no connection, a timeout, an error
\* status, or markup the parser rejects
FailedFetch(outcome) ==
    outcome.exc # "" \/ outcome.status >= 400 \/ outcome.malformed

\* the download failed: the request or the read of the body raised, the
\* status is an error, the Content-Length header is not a number, or the
\* payload does not decode
FailedDownload(response) ==
    \/ response.exc # ""
    \/ response.status >= 400
    \/ /\ Get(response.headers, "Content-Length", "") # ""
       /\ ~IsDigits(response.headers["Content-Length"])
    \/ "exc" \in DOMAIN response.body
    \/ ~response.body.decodes

C9_WitnessFeedContent ==
    /\ GetEntryContentDone /\ ScraperInvoked
    /\ loc.scraped = Returns(NONE)
    /\ ret = Returns(FeedContent(arg.entry))

\* C9 happens in find_fallback_image: both providers raised
C9_WitnessProviders ==
    /\ FindFallbackDone /\ Len(events) = 2
    /\ \A i \in DOMAIN events : events[i].result.exc # ""
    /\ ret = Returns(NONE)

\* a call of is_same_domain has returned
IsSameDomainDone == call = "is_same_domain" /\ pc = "done"

\* the call is_same_domain(source_url, image_url) has returned
IsSameDomainCalled(source_url, image_url) ==
    /\ IsSameDomainDone
    /\ arg.source_url = Some(source_url)
    /\ arg.image_url = Some(image_url)

\* C11 as stated: is_same_domain("https://x.example.com/a",
\* "https://example.com/img.jpg") is true, an image on the parent host of
\* the source page is accepted as same-domain
C11_ParentOfSourceAccepted ==
    IsSameDomainCalled(ChildUrl, ParentImage) => ret = Returns(TRUE)

\* C11, amended: the subdomain rule is directional. The image on example.com
\* is not same-domain for a source page on x.example.com, the call returns
\* false; the image on x.example.com is same-domain for a source page on
\* example.com, the call returns true
C11_SubdomainRuleIsDirectional ==
    /\ IsSameDomainCalled(ChildUrl, ParentImage) => ret = Returns(FALSE)
    /\ IsSameDomainCalled(ParentUrl, ChildImage) => ret = Returns(TRUE)

C11_Witness == IsSameDomainCalled(ChildUrl, ParentImage)

C11_WitnessChildImage == IsSameDomainCalled(ParentUrl, ChildImage)

\* an entry of nothing but a content, summary and description that are all
\* empty or absent, and possibly a link
BareEntry(entry) ==
    /\ DOMAIN entry \subseteq {"content", "summary", "description", "link"}
    /\ FeedContent(entry) = <<>>

\* get_entry_content has returned for a bare entry with a link, the page of
\* the link scraped
BareEntryScraped ==
    /\ GetEntryContentDone
    /\ BareEntry(arg.entry)
    /\ Get(arg.entry, "link", "") # ""
    /\ ScraperInvoked

\* scrape_image_from_url has returned for a page that was fetched and
\* parsed and whose og:image is on a blocked host
BlockedOgPageScraped ==
    /\ ScrapeImageDone
    /\ "doc" \in DOMAIN loc
    /\ "og_image" \in DOMAIN loc.doc
    /\ is_image_domain_blocked(loc.doc.og_image.content)

\* the page has no other image candidate than its og:image
OnlyOgImage(doc) ==
    /\ doc.sources = <<>>
    /\ doc.imgs = <<>>
    /\ "twitter_image" \notin DOMAIN doc

\* find_fallback_image has returned and was given no key
NoKeysConfigured ==
    /\ FindFallbackDone
    /\ ~Truthy(arg.pexels)
    /\ ~Truthy(arg.unsplash)

C12_WitnessContent ==
    /\ BareEntryScraped
    /\ loc.scraped = Returns(NONE)
    /\ arg.entry.link = ArticleUrl

C12_WitnessEntry == FindRssImageDone /\ BareEntry(arg.entry)

C12_WitnessNoKeys == NoKeysConfigured /\ arg.title # ""

\* the sport groups in their fixed order
SportOrder ==
    <<"basketball", "baseball", "softball", "football", "soccer",
      "volleyball", "tennis", "golf", "track", "swimming">>

\* the aliases of a sport group
Aliases(sport) ==
    UNION {sport_queries[g].keywords :
              g \in {h \in DOMAIN sport_queries : sport_queries[h].sport = sport}}

\* one of the aliases of the i-th sport group occurs in the text
SportOccurs(i, text) == \E alias \in Aliases(SportOrder[i]) : Contains(text, alias)

\* the tokens of a text that are no stop words and longer than 2 characters
EligibleTokens(text) ==
    SelectSeq(SplitWs(SubNonWord(Lower(text))),
              LAMBDA w : w \notin stop_words /\ Len(w) > 2)

\* the places of a sequence that hold a token for the first time
FirstAppearances(tokens) ==
    SelectSeq([i \in DOMAIN tokens |-> i],
              LAMBDA i : \A j \in 1..(i - 1) : tokens[j] # tokens[i])

\* the first 5 unique tokens in order of first appearance, joined by spaces
KeywordString(tokens, places) ==
    Join([k \in 1..(IF Len(places) < 5 THEN Len(places) ELSE 5) |-> tokens[places[k]]],
         " ")

\* the keyword string of a text
KeywordsOf(text) ==
    KeywordString(EligibleTokens(text), FirstAppearances(EligibleTokens(text)))

\* the query the rule gives for a title and a feed name
ExpectedQuery(title, feed_name) ==
    IF \E i \in DOMAIN SportOrder : SportOccurs(i, Lower(title \o " " \o feed_name))
    THEN "college "
         \o SportOrder[SetMin({i \in DOMAIN SportOrder :
                                  SportOccurs(i, Lower(title \o " " \o feed_name))})]
         \o " sport"
    ELSE IF KeywordsOf(title \o " " \o feed_name) = "" THEN "college sports athletics"
    ELSE KeywordsOf(title \o " " \o feed_name)

\* find_fallback_image has built its query
QueryBuilt == call = "find_fallback_image" /\ "query" \in DOMAIN loc

\* C13: the query find_fallback_image builds is "college <sport> sport" for
\* the first sport group, in the order basketball, baseball, softball,
\* football, soccer, volleyball, tennis, golf, track, swimming, one of whose
\* aliases is a substring of the lowercased title + feed name; otherwise the
\* first 5 unique tokens of title + feed name that are no stop words and
\* longer than 2 characters; and "college sports athletics" when there is
\* none.  The title "Lady Tigers MBBall Wins Championship" gives "college
\* basketball sport".  Every provider is searched with that query.
C13_QueryBySportThenKeywords ==
    QueryBuilt =>
        /\ loc.query = ExpectedQuery(arg.title, arg.feed_name)
        /\ arg.title = "Lady Tigers MBBall Wins Championship"
              => loc.query = "college basketball sport"
        /\ \A i \in DOMAIN events :
              events[i].op = "search" => events[i].query = loc.query

\* C13 happens: two sport groups occur in the title, the later one first,
\* and the query names the earlier group
C13_Witness ==
    /\ QueryBuilt
    /\ arg.title = "Softball and Baseball teams split"
    /\ loc.query = "college baseball sport"

\* C13 happens for the keywords: more than 5 tokens, one of them twice
C13_WitnessKeywords ==
    /\ QueryBuilt
    /\ Len(FirstAppearances(EligibleTokens(arg.title))) > 5
    /\ Len(FirstAppearances(EligibleTokens(arg.title))) < Len(EligibleTokens(arg.title))
    /\ loc.query = "tigers edge lions overtime thriller"

\* C13 happens for the default: a title of stop words and short tokens
C13_WitnessDefault ==
    /\ QueryBuilt
    /\ arg.title = "It is on!"
    /\ loc.query = "college sports athletics"

C13_WitnessExample ==
    /\ QueryBuilt
    /\ arg.title = "Lady Tigers MBBall Wins Championship"
    /\ \E i \in DOMAIN events : events[i].op = "search"

\* a host without its "www." when that is its prefix
StripLeadingWww(host) == IF StartsWith(host, "www.") THEN From(host, 4) ELSE host

\* a trusted (source-domain, CDN-fragment) pair matches the two hosts
TrustedPair(source_host, image_host) ==
    \E i \in DOMAIN trusted_cdn_patterns :
        /\ Contains(source_host, trusted_cdn_patterns[i][1])
        /\ Contains(image_host, trusted_cdn_patterns[i][2])

\* the hosts are the same, the image host is a child of the source host, or
\* a trusted pair matches
HostsMatch(source_host, image_host) ==
    \/ source_host = image_host
    \/ EndsWith(image_host, "." \o source_host)
    \/ TrustedPair(source_host, image_host)

\* the reference: false when an input is missing or has no host; otherwise
\* the match of the lowercased hosts without their leading "www."
LeadingWwwReference(source_url, image_url) ==
    IF ~Truthy(source_url) \/ ~Truthy(image_url) THEN FALSE
    ELSE IF urlparse(source_url.val).netloc = "" \/ urlparse(image_url.val).netloc = ""
    THEN FALSE
    ELSE HostsMatch(StripLeadingWww(Lower(urlparse(source_url.val).netloc)),
                    StripLeadingWww(Lower(urlparse(image_url.val).netloc)))

\* C14 as stated: is_same_domain strips only a leading "www." from each
\* host; for every pair of URLs its result is that of the reference, which
\* lowercases the hosts, removes "www." only as a prefix and returns true
\* exactly when the hosts are equal, the image host ends with "." + source
\* host or a trusted pair matches, and which is false when an input is
\* missing or has no host
C14_StripsOnlyLeadingWww ==
    IsSameDomainDone =>
        ret = Returns(LeadingWwwReference(arg.source_url, arg.image_url))

\* the call where "www." inside the source host is taken out
C14_InnerWwwRemoved ==
    /\ IsSameDomainCalled(InnerWwwUrl, InnerWwwImage)
    /\ ret = Returns(TRUE)

\* the call where neither URL has a host
C14_HostlessPairAccepted ==
    /\ IsSameDomainCalled(HostlessUrl, HostlessImage)
    /\ ret = Returns(TRUE)

\* the media_content entry is declared an image by its type or medium
DeclaredImage(media) ==
    \/ Get(media, "type", "") \in IMAGE_MIME_TYPES
    \/ Get(media, "medium", "") = "image"

\* the places of the media_content entries that are declared an image or
\* have a URL that passes is_valid_image_url
DeclaredOrValid(items) ==
    {i \in DOMAIN items :
        DeclaredImage(items[i]) \/ is_valid_image_url(Get(items[i], "url", ""))}

\* the places of the media_content entries whose URL passes
\* is_valid_image_url
ValidMedia(items) ==
    {i \in DOMAIN items : is_valid_image_url(Get(items[i], "url", ""))}

\* find_rss_image has returned for an entry with media_content entries
MediaContentDone == FindRssImageDone /\ HasItems(arg.entry, "media_content")

\* C15 as stated: stage 1 of find_rss_image accepts the first media_content
\* entry, in list order, that is declared an image by type or medium or
\* whose URL passes is_valid_image_url; a declared image is accepted on the
\* declaration alone, and no later entry or stage is preferred over it
C15_DeclaredImageAccepted ==
    (MediaContentDone /\ DeclaredOrValid(arg.entry.media_content) # {}) =>
        /\ ret = Returns(Some(Get(arg.entry.media_content[
                                     SetMin(DeclaredOrValid(arg.entry.media_content))],
                                  "url", "")))
        /\ Len(loc.consulted) = 1

\* C15, amended: stage 1 accepts the first media_content entry, in list
\* order, whose URL passes is_valid_image_url, whether or not it is declared
\* an image; an entry declared an image whose URL does not pass is skipped.
\* No later entry or stage is preferred over the accepted entry, and when
\* no entry is accepted stage 1 leaves the URL unset
C15_ValidUrlAccepted ==
    MediaContentDone =>
        IF ValidMedia(arg.entry.media_content) # {}
        THEN /\ ret = Returns(Some(Get(arg.entry.media_content[
                                          SetMin(ValidMedia(arg.entry.media_content))],
                                       "url", "")))
             /\ Len(loc.consulted) = 1
        ELSE loc.consulted[1] = [stage |-> "media_content", image_url |-> NONE]

\* C15 happens: the first media_content entry is declared an image, its URL
\* does not pass, and the URL of the second entry is returned
C15_Witness ==
    /\ MediaContentDone
    /\ Len(arg.entry.media_content) = 2
    /\ DeclaredImage(arg.entry.media_content[1])
    /\ ~is_valid_image_url(Get(arg.entry.media_content[1], "url", ""))
    /\ ret = Returns(Some(Get(arg.entry.media_content[2], "url", "")))

\* C15 happens with a later stage: the only media_content entry is declared
\* an image, its URL does not pass, and the thumbnail stage gives the URL
C15_WitnessLaterStage ==
    /\ MediaContentDone
    /\ ValidMedia(arg.entry.media_content) = {}
    /\ DeclaredOrValid(arg.entry.media_content) # {}
    /\ ret.val # NONE
    /\ Last(loc.consulted).stage = "media_thumbnail"

\* the URL get_entry_content scrapes for an entry whose feed content is
\* short: its source_url when that is a non-empty string, NONE otherwise
ScrapedUrl(entry) == IF Truthy(SourceUrl(entry)) THEN SourceUrl(entry) ELSE NONE

\* the URL get_entry_link gives, NONE when it gives None or ""
LinkUrlOf(entry) == IF Truthy(get_entry_link(entry)) THEN get_entry_link(entry) ELSE NONE

GetEntryLinkDone == call = "get_entry_link" /\ pc = "done"

\* C16: the source URL get_entry_content scrapes is the URL get_entry_link
\* returns for the same entry, whatever the entry's shape (link present or
\* absent, links[] entries with or without rel, type and href): when
\* get_entry_content calls the scraper, it is with the URL of
\* get_entry_link, and when get_entry_link returns a URL, it is the one
\* get_entry_content scrapes
C16_ScrapedUrlIsEntryLink ==
    /\ (call = "get_entry_content" /\ ScraperInvoked) =>
          Some(events[1].url) = LinkUrlOf(arg.entry)
    /\ GetEntryLinkDone =>
          (IF Truthy(ret.val) THEN ret.val ELSE NONE) = ScrapedUrl(arg.entry)

\* the scraper is called with the first link of an entry for which
\* get_entry_link gives None
C16_ScrapedWithoutEntryLink ==
    /\ GetEntryContentDone
    /\ ScraperInvoked
    /\ events[1].url = OtherUrl
    /\ get_entry_link(arg.entry) = NONE

\* get_entry_link returns None for an entry whose first link
\* get_entry_content scrapes
C16_NoEntryLinkForScrapedUrl ==
    /\ GetEntryLinkDone
    /\ ret = Returns(NONE)
    /\ ScrapedUrl(arg.entry) = Some(OtherUrl)

\* scrape_article_content, called on its own, has returned a text
ScrapeArticleReturned ==
    /\ call = "scrape_article_content" /\ pc = "done"
    /\ ret.exc = "" /\ ret.val # NONE

\* the texts of the page of the call: those of its selected elements and
\* that of its body
PageTexts(doc) ==
    {get_text(doc.select[s]) : s \in DOMAIN doc.select}
    \cup (IF "body" \in DOMAIN doc THEN {get_text(doc.body)} ELSE {})

\* C17 as stated: every non-none text scrape_article_content returns is
\* longer than 200 characters; the floor still holds for the returned
\* string, after its whitespace is collapsed and it is trimmed
C17_ReturnedTextOverFloor ==
    ScrapeArticleReturned => StrLen(ret.val.val) > 200

\* C17, amended: every non-none text scrape_article_content returns is not
\* empty and is the collapsed and trimmed form of a text of the page that
\* is longer than 200 characters before the collapse; the returned string
\* is no longer than that text and can itself be of 200 characters or fewer
C17_FloorBeforeCollapse ==
    ScrapeArticleReturned =>
        /\ ret.val.val # <<>>
        /\ \E text \in PageTexts(loc.outcome.doc) :
              /\ StrLen(text) > 200
              /\ ret.val.val = StripSegs(CollapseWs(text))
              /\ StrLen(ret.val.val) <= StrLen(text)

\* C17 happens: a text of more than 200 characters, most of them one run
\* of whitespace, is returned with 200 characters or fewer
C17_Witness ==
    /\ ScrapeArticleReturned
    /\ StrLen(ret.val.val) <= 200
    /\ \E text \in PageTexts(loc.outcome.doc) :
          StrLen(text) > 200 /\ ret.val.val = StripSegs(CollapseWs(text))
=============================================================================
